---- MODULE Spec2Model ----
(***************************************************************************)
(* Model of the hub-kms REST operations (pkg/restapi/kms/operation).       *)
(*                                                                         *)
(* The six handlers of operations.go are translated one by one.  The       *)
(* handlers of sign, verify, encrypt, decrypt and create-keystore touch    *)
(* the shared keystore storage at most once and are single actions.  The   *)
(* create-key handler reads the keystore record, has the key manager mint  *)
(* a key and writes the record back; it is split at the point between the  *)
(* read and the write, where other requests can run.                       *)
(*                                                                         *)
(* Collaborators that are injected through Provider (storage, key-manager  *)
(* constructor, crypto) are external: every call returns a                 *)
(* nondeterministically chosen outcome.  The handlers are methods of the   *)
(* Operation: each is given the Operation and the storage and returns      *)
(* them as it leaves them.                                                 *)
(***************************************************************************)
EXTENDS Integers, Sequences, FiniteSets, TLC

(***************************************************************************)
(* Bounds of the model.                                                    *)
(***************************************************************************)
\* number of concurrent create-key requests (each runs in its own goroutine)
MaxCreateKey == 2
\* number of keystores and keys the storage holds at most (the test fixture
\* is one keystore with one key)
MaxStoreSize == 5
\* the same where a client sends back what the responses returned
MaxScenarioSize == 4

(***************************************************************************)
(* Constants of operations.go and of its test fixture.                     *)
(***************************************************************************)
keystoreIDQueryParam == "keystoreID"
keyIDQueryParam == "keyID"

\* API endpoints, as sequences of path pieces; a "{name}" piece is a
\* path parameter.
kmsBasePath == <<"/kms">>
keystoresEndpoint == kmsBasePath \o <<"/keystores">>
keystoreEndpoint == keystoresEndpoint \o <<"/", "{keystoreID}">>
keysEndpoint == keystoreEndpoint \o <<"/keys">>
keyEndpoint == keysEndpoint \o <<"/", "{keyID}">>
signEndpoint == keyEndpoint \o <<"/sign">>
verifyEndpoint == keyEndpoint \o <<"/verify">>
encryptEndpoint == keyEndpoint \o <<"/encrypt">>
decryptEndpoint == keyEndpoint \o <<"/decrypt">>

\* error messages (the format strings; "%s" is filled with the error)
receivedBadRequest == "Received bad request: %s"
createKeystoreFailure == "Failed to create a keystore: %s"
createKMSProviderFailure == "Failed to create a kms provider: %s"
createKeyFailure == "Failed to create a key: %s"
signMessageFailure == "Failed to sign a message: %s"
verifyMessageFailure == "Failed to verify a message: %s"
encryptMessageFailure == "Failed to encrypt a message: %s"
decryptMessageFailure == "Failed to decrypt a message: %s"

StatusOK == 200
StatusCreated == 201
StatusBadRequest == 400
StatusInternalServerError == 500

testKeyID == "Fm4r2iwjYnswLRZKl38W"
testKeystoreID == "bsi5ct08vcqmquc0fn5g"
testController == "did:example:123456789"
testKeyType == "ED25519"

(***************************************************************************)
(* Errors.  An error value is its text; nil is NoErr.                      *)
(***************************************************************************)
NoErr == "<nil>"
ErrInvalidSignature == "invalid signature"
\* errors wrapping ErrInvalidSignature (the chain errors.Is walks)
WrapsInvalidSignature == {"verify msg: invalid signature"}

\* errors.Is(err, target)
errorsIs(err, target) ==
    \/ err = target
    \/ target = ErrInvalidSignature /\ err \in WrapsInvalidSignature

\* fmt.Sprintf(format, err): the format and the error text it is filled with
Sprintf(format, err) == <<format, err>>

(***************************************************************************)
(* encoding/base64, URLEncoding (padded, not strict).  A string of the     *)
(* base64 alphabet is a sequence of character codes: 0..63 is the index    *)
(* of a character of the alphabet, PadChar is '=', and BadChar is a        *)
(* character outside the alphabet such as '!'.  Bytes are 0..255.          *)
(***************************************************************************)
PadChar == 64
BadChar == 65
CorruptInputError == "illegal base64 data"

IsAlphabet(c) == c \in 0..63

\* EncodeToString with a bug: the padding is left out (RawURLEncoding)
RECURSIVE EncodeToStringNoPadding(_)
EncodeToStringNoPadding(src) ==
    IF Len(src) = 0 THEN <<>>
    ELSE IF Len(src) = 1 THEN
        LET val == src[1] * 65536
        IN  <<val \div 262144, (val \div 4096) % 64>>
    ELSE IF Len(src) = 2 THEN
        LET val == src[1] * 65536 + src[2] * 256
        IN  <<val \div 262144, (val \div 4096) % 64, (val \div 64) % 64>>
    ELSE
        LET val == src[1] * 65536 + src[2] * 256 + src[3]
        IN  <<val \div 262144, (val \div 4096) % 64, (val \div 64) % 64, val % 64>>
            \o EncodeToStringNoPadding(SubSeq(src, 4, Len(src)))

RECURSIVE EncodeToString(_)
EncodeToString(src) ==
    IF Len(src) = 0 THEN <<>>
    ELSE IF Len(src) = 1 THEN
        LET val == src[1] * 65536
        IN  <<val \div 262144, (val \div 4096) % 64, PadChar, PadChar>>
    ELSE IF Len(src) = 2 THEN
        LET val == src[1] * 65536 + src[2] * 256
        IN  <<val \div 262144, (val \div 4096) % 64, (val \div 64) % 64, PadChar>>
    ELSE
        LET val == src[1] * 65536 + src[2] * 256 + src[3]
        IN  <<val \div 262144, (val \div 4096) % 64, (val \div 64) % 64, val % 64>>
            \o EncodeToString(SubSeq(src, 4, Len(src)))

\* quantumBytes with a bug: the second byte is cut to its low 6 bits
quantumBytesCut(d, dlen) ==
    LET val == d[1] * 262144 + d[2] * 4096 + d[3] * 64 + d[4]
        all == <<(val \div 65536) % 256, (val \div 256) % 64, val % 256>>
    IN  SubSeq(all, 1, dlen - 1)

\* the bytes of one quantum of dlen decoded characters d (missing ones are 0)
quantumBytes(d, dlen) ==
    LET val == d[1] * 262144 + d[2] * 4096 + d[3] * 64 + d[4]
        all == <<(val \div 65536) % 256, (val \div 256) % 256, val % 256>>
    IN  SubSeq(all, 1, dlen - 1)

RECURSIVE DecodeString(_)
DecodeString(s) ==
    LET n == Len(s)
        corrupt == [err |-> CorruptInputError, out |-> <<>>]
    IN
    IF n = 0 THEN [err |-> NoErr, out |-> <<>>]
    ELSE IF ~IsAlphabet(s[1]) THEN corrupt
    ELSE IF n = 1 THEN corrupt
    ELSE IF ~IsAlphabet(s[2]) THEN corrupt
    ELSE IF n = 2 THEN corrupt
    ELSE IF s[3] = PadChar THEN
        IF n = 3 \/ (n > 3 /\ s[4] # PadChar) \/ n > 4 THEN corrupt
        ELSE [err |-> NoErr, out |-> quantumBytes(<<s[1], s[2], 0, 0>>, 2)]
    ELSE IF ~IsAlphabet(s[3]) THEN corrupt
    ELSE IF n = 3 THEN corrupt
    ELSE IF s[4] = PadChar THEN
        IF n > 4 THEN corrupt
        ELSE [err |-> NoErr, out |-> quantumBytes(<<s[1], s[2], s[3], 0>>, 3)]
    ELSE IF ~IsAlphabet(s[4]) THEN corrupt
    ELSE
        LET rest == DecodeString(SubSeq(s, 5, n))
        IN  IF rest.err # NoErr THEN corrupt
            ELSE [err |-> NoErr,
                  out |-> quantumBytes(<<s[1], s[2], s[3], s[4]>>, 4) \o rest.out]

(***************************************************************************)
(* The response writer.  code, wroteHeader, body and location are the      *)
(* fields of httptest.ResponseRecorder (Code is 200 until WriteHeader);    *)
(* failing says that Write returns an error (failingResponseWriter).       *)
(* The other fields record what the handler did: headerCalls counts the    *)
(* WriteHeader calls, encoded holds the values handed to the JSON encoder, *)
(* calls holds the calls in order, each with the error it returned, and    *)
(* logs holds the logged errors.                                           *)
(***************************************************************************)
NoLocation == "<none>"

NewRecorder(failing) ==
    [code |-> StatusOK, wroteHeader |-> FALSE, body |-> <<>>,
     location |-> NoLocation, failing |-> failing,
     headerCalls |-> 0, encoded |-> <<>>, calls |-> <<>>, logs |-> <<>>]

\* a call of the handler, recorded in order with its arguments and the
\* error it returned
Called(rw, op, args, err) ==
    [rw EXCEPT !.calls = Append(@, [op |-> op, args |-> args, err |-> err])]

\* the call in progress returns err
Returned(rw, err) == [rw EXCEPT !.calls[Len(rw.calls)].err = err]

\* rw.WriteHeader(status)
WriteHeader(rw, status) ==
    LET rw1 == Called([rw EXCEPT !.headerCalls = @ + 1], "WriteHeader", <<status>>, NoErr)
    IN  IF rw.wroteHeader
        THEN rw1
        ELSE [rw1 EXCEPT !.code = status, !.wroteHeader = TRUE]

\* rw.Write(data): [rw, err]
Write(rw, data) ==
    IF rw.failing
    THEN [rw |-> rw, err |-> "write error"]
    ELSE [rw |-> [rw EXCEPT !.wroteHeader = TRUE, !.body = Append(@, data)],
          err |-> NoErr]

\* json.NewEncoder(rw).Encode(v): [rw, err]
Encode(rw, v) ==
    LET w == Write([rw EXCEPT !.encoded = Append(@, v)], v)
    IN  [rw |-> Called(w.rw, "Encode", <<>>, w.err), err |-> w.err]

\* rw.Header().Set("Location", loc)
SetLocation(rw, loc) == [rw EXCEPT !.location = loc]

\* logger.Errorf(text, err)
Errorf(rw, text) == [rw EXCEPT !.logs = Append(@, text)]

\* errorResponse{Message: msg}
errorResponse(msg) == [errMessage |-> msg]

writeErrorResponse(rw, status, msg) ==
    LET e == Encode(WriteHeader(rw, status), errorResponse(msg))
    IN  IF e.err # NoErr
        THEN Errorf(e.rw, "Unable to send an error message, %s")
        ELSE e.rw

\* writeResponse with a bug: a failed write is tried again
writeResponseRetrying(rw, v) ==
    LET e == Encode(rw, v)
    IN  IF e.err # NoErr
        THEN Encode(Errorf(e.rw, "Unable to send a response, %s"), v).rw
        ELSE e.rw

writeResponse(rw, v) ==
    LET e == Encode(rw, v)
    IN  IF e.err # NoErr
        THEN Errorf(e.rw, "Unable to send a response, %s")
        ELSE e.rw

(***************************************************************************)
(* Locations.                                                              *)
(***************************************************************************)
\* strings.ReplaceAll on a path: every piece that is the placeholder becomes
\* its value
ReplaceAll(path, old, new) ==
    [i \in 1..Len(path) |-> IF path[i] = old THEN new ELSE path[i]]

\* strings.NewReplacer(old1, new1, old2, new2).Replace(path): one pass, a
\* value put in is not replaced again
Replace(path, old1, new1, old2, new2) ==
    [i \in 1..Len(path) |->
        IF path[i] = old1 THEN new1 ELSE IF path[i] = old2 THEN new2 ELSE path[i]]

RECURSIVE Join(_)
Join(path) == IF Len(path) = 0 THEN "" ELSE Head(path) \o Join(Tail(path))

keystoreLocation(hostURL, keystoreID) ==
    hostURL \o Join(ReplaceAll(keystoreEndpoint, "{keystoreID}", keystoreID))

\* keyLocation with a bug: the two path parameters are taken for each other
keyLocationSwapped(hostURL, keystoreID, keyID) ==
    hostURL \o Join(Replace(keyEndpoint, "{keystoreID}", keyID, "{keyID}", keystoreID))

keyLocation(hostURL, keystoreID, keyID) ==
    hostURL \o Join(Replace(keyEndpoint, "{keystoreID}", keystoreID, "{keyID}", keyID))

(***************************************************************************)
(* Requests.  A request is [body, vars, host]: the body is empty, is not   *)
(* JSON, or is a JSON object (a function from some field names to          *)
(* values); vars are the path parameters (mux.Vars); host is req.Host.     *)
(* Text fields that are turned into bytes (message, aad) are byte          *)
(* sequences; base64 fields are sequences of character codes.              *)
(***************************************************************************)
\* the request structures, with their zero values
createKeystoreReq == [controller |-> ""]
createKeyReq == [keyType |-> "", passphrase |-> ""]
signReq == [message |-> <<>>, passphrase |-> ""]
verifyReq == [signature |-> <<>>, message |-> <<>>, passphrase |-> ""]
encryptReq == [message |-> <<>>, aad |-> <<>>, passphrase |-> ""]
decryptReq == [cipherText |-> <<>>, aad |-> <<>>, nonce |-> <<>>, passphrase |-> ""]

EmptyBody == [kind |-> "empty", obj |-> <<>>]
SyntaxBody == [kind |-> "syntax", obj |-> <<>>]
ObjectBody(obj) == [kind |-> "object", obj |-> obj]

\* json.NewDecoder(body).Decode(&v): the fields present in the object are
\* set, the others keep their value
Decode(body, v) ==
    IF body.kind = "empty" THEN [err |-> "EOF", val |-> v]
    ELSE IF body.kind = "syntax" THEN [err |-> "invalid character", val |-> v]
    ELSE [err |-> NoErr,
          val |-> [f \in DOMAIN v |->
                     IF f \in DOMAIN body.obj THEN body.obj[f] ELSE v[f]]]

\* parseRequest with a bug: the bad request is answered but reported as parsed
parseRequestNoReturn(parsedReq, rw, req) ==
    LET d == Decode(req.body, parsedReq)
        rw1 == Called(rw, "parseRequest", <<>>, d.err)
    IN  IF d.err # NoErr
        THEN [ok |-> TRUE, request |-> d.val,
              rw |-> writeErrorResponse(rw1, StatusBadRequest,
                                        Sprintf(receivedBadRequest, d.err))]
        ELSE [ok |-> TRUE, request |-> d.val, rw |-> rw1]

\* [ok, rw, request]
parseRequest(parsedReq, rw, req) ==
    LET d == Decode(req.body, parsedReq)
        rw1 == Called(rw, "parseRequest", <<>>, d.err)
    IN  IF d.err # NoErr
        THEN [ok |-> FALSE, request |-> d.val,
              rw |-> writeErrorResponse(rw1, StatusBadRequest,
                                        Sprintf(receivedBadRequest, d.err))]
        ELSE [ok |-> TRUE, request |-> d.val, rw |-> rw1]

(***************************************************************************)
(* The provider holds the outcome of every collaborator call of one        *)
(* request: repoErr (keystore.NewRepository on the storage provider),      *)
(* kmsErr (the KMSCreator), and the outcomes of the service call, named    *)
(* as the fields of the mocks are (SignErr, SignValue, ...).               *)
(***************************************************************************)
Nil == [keystore |-> "<nil>", kms |-> <<>>, crypto |-> "<nil>"]

\* the provider bundle of a request
kmsProvider(keystoreID, passphrase) ==
    [keystore |-> "repo", kms |-> <<keystoreID, passphrase>>, crypto |-> "crypto"]

\* prepareKMSProvider with a bug: the error of the KMSCreator is not checked
prepareKMSProviderUnchecked(rw, provider, keystoreID, passphrase) ==
    LET rw1 == Called(rw, "NewRepository", <<>>, provider.repoErr)
    IN  IF provider.repoErr # NoErr
        THEN [provider |-> Nil,
              rw |-> writeErrorResponse(rw1, StatusInternalServerError,
                                        Sprintf(createKMSProviderFailure, provider.repoErr))]
        ELSE [provider |-> kmsProvider(keystoreID, passphrase),
              rw |-> Called(rw1, "KMSCreator", <<keystoreID, passphrase>>, provider.kmsErr)]

\* prepareKMSProvider with a bug: the failure is answered but the provider
\* is returned all the same
prepareKMSProviderNoReturn(rw, provider, keystoreID, passphrase) ==
    LET rw1 == Called(rw, "NewRepository", <<>>, provider.repoErr)
        rw2 == IF provider.repoErr # NoErr
               THEN writeErrorResponse(rw1, StatusInternalServerError,
                                       Sprintf(createKMSProviderFailure, provider.repoErr))
               ELSE rw1
        rw3 == Called(rw2, "KMSCreator", <<keystoreID, passphrase>>, provider.kmsErr)
        rw4 == IF provider.kmsErr # NoErr
               THEN writeErrorResponse(rw3, StatusInternalServerError,
                                       Sprintf(createKMSProviderFailure, provider.kmsErr))
               ELSE rw3
    IN  [provider |-> kmsProvider(keystoreID, passphrase), rw |-> rw4]

\* prepareKMSProvider with a bug: the key manager is not constructed for the
\* request but taken as if it had been kept from an earlier one
prepareKMSProviderCached(rw, provider, keystoreID, passphrase) ==
    LET rw1 == Called(rw, "NewRepository", <<>>, provider.repoErr)
    IN  IF provider.repoErr # NoErr
        THEN [provider |-> Nil,
              rw |-> writeErrorResponse(rw1, StatusInternalServerError,
                                        Sprintf(createKMSProviderFailure, provider.repoErr))]
        ELSE [provider |-> kmsProvider(keystoreID, passphrase), rw |-> rw1]

\* prepareKMSProvider with a bug: a failure is not answered
prepareKMSProviderSilent(rw, provider, keystoreID, passphrase) ==
    LET rw1 == Called(rw, "NewRepository", <<>>, provider.repoErr)
    IN  IF provider.repoErr # NoErr
        THEN [provider |-> Nil, rw |-> rw1]
        ELSE
        LET rw2 == Called(rw1, "KMSCreator", <<keystoreID, passphrase>>, provider.kmsErr)
        IN  IF provider.kmsErr # NoErr
            THEN [provider |-> Nil, rw |-> rw2]
            ELSE [provider |-> kmsProvider(keystoreID, passphrase), rw |-> rw2]

\* prepareKMSProvider with a bug: the key manager is the one of the test
\* keystore, whatever the keystore of the request
prepareKMSProviderShared(rw, provider, keystoreID, passphrase) ==
    LET rw1 == Called(rw, "NewRepository", <<>>, provider.repoErr)
    IN  IF provider.repoErr # NoErr
        THEN [provider |-> Nil,
              rw |-> writeErrorResponse(rw1, StatusInternalServerError,
                                        Sprintf(createKMSProviderFailure, provider.repoErr))]
        ELSE
        LET rw2 == Called(rw1, "KMSCreator", <<testKeystoreID, passphrase>>, provider.kmsErr)
        IN  IF provider.kmsErr # NoErr
            THEN [provider |-> Nil,
                  rw |-> writeErrorResponse(rw2, StatusInternalServerError,
                                            Sprintf(createKMSProviderFailure, provider.kmsErr))]
            ELSE [provider |-> kmsProvider(testKeystoreID, passphrase), rw |-> rw2]

\* [provider, rw]
prepareKMSProvider(rw, provider, keystoreID, passphrase) ==
    LET rw1 == Called(rw, "NewRepository", <<>>, provider.repoErr)
    IN  IF provider.repoErr # NoErr
        THEN [provider |-> Nil,
              rw |-> writeErrorResponse(rw1, StatusInternalServerError,
                                        Sprintf(createKMSProviderFailure, provider.repoErr))]
        ELSE
        LET rw2 == Called(rw1, "KMSCreator", <<keystoreID, passphrase>>, provider.kmsErr)
        IN  IF provider.kmsErr # NoErr
            THEN [provider |-> Nil,
                  rw |-> writeErrorResponse(rw2, StatusInternalServerError,
                                            Sprintf(createKMSProviderFailure, provider.kmsErr))]
            ELSE [provider |-> kmsProvider(keystoreID, passphrase), rw |-> rw2]

(***************************************************************************)
(* The crypto of the provider (Provider.Crypto()).  It is either the mock  *)
(* of the tests, whose calls return the values and errors set on it, or a  *)
(* working crypto: a signature scheme and an authenticated encryption      *)
(* whose signatures and ciphertexts are functions of the key, so that      *)
(* what one call produced can be recognised by another.  Key material is   *)
(* a number held by the key manager for the key of a keystore.             *)
(***************************************************************************)
MockCrypto == "MockCrypto"
WorkingCrypto == "Crypto"

RECURSIVE Sum(_)
Sum(bytes) == IF Len(bytes) = 0 THEN 0 ELSE Head(bytes) + Sum(Tail(bytes))

\* the key handle kms.Get(keyID) returns: the key manager was built for a
\* keystore and a passphrase, and holds the keys of that keystore
KeyHandle(kms, keyID) == <<kms[1], keyID>>

\* the key material behind a key handle
KeyMaterial(kh) ==
    (IF kh[1] = testKeystoreID THEN 3 ELSE 5) + (IF kh[2] = testKeyID THEN 7 ELSE 11)

\* crypto.Sign(msg, kh)
SignatureOf(kh, msg) ==
    [i \in 1..Len(msg) |-> (msg[i] + KeyMaterial(kh)) % 256]
        \o <<(Sum(msg) + KeyMaterial(kh)) % 256>>

\* crypto.Verify(sig, msg, kh): the error
VerifySignature(kh, sig, msg) ==
    IF sig = SignatureOf(kh, msg) THEN NoErr ELSE "verify msg: invalid signature"

\* the authentication tag of a message under a key, aad and nonce
Tag(kh, msg, aad, nonce) ==
    (KeyMaterial(kh) + Sum(msg) + 3 * Sum(aad) + 5 * Sum(nonce) + Len(aad)) % 256

\* crypto.Encrypt(msg, aad, kh) with the nonce the crypto has drawn
CipherTextOf(kh, msg, aad, nonce) ==
    [i \in 1..Len(msg) |-> (msg[i] + KeyMaterial(kh) + Sum(nonce)) % 256]
        \o <<Tag(kh, msg, aad, nonce)>>

\* crypto.Decrypt(cipher, aad, nonce, kh): [value, err]
PlainTextOf(kh, cipher, aad, nonce) ==
    IF Len(cipher) = 0
    THEN [value |-> <<>>, err |-> "decrypt error"]
    ELSE LET n == Len(cipher) - 1
             msg == [i \in 1..n |->
                       (cipher[i] + 256 * (1 + Len(nonce)) - KeyMaterial(kh) - Sum(nonce)) % 256]
         IN  IF cipher[n + 1] = Tag(kh, msg, aad, nonce)
             THEN [value |-> msg, err |-> NoErr]
             ELSE [value |-> <<>>, err |-> "decrypt error"]

(***************************************************************************)
(* The KMS service (kms.Service) on the bundle kp of a request.  Its       *)
(* operations are run on the storage st and return the storage with their  *)
(* results; Sign, Verify, Encrypt and Decrypt save nothing: the only       *)
(* mutation path of the storage is the creation of a key.                  *)
(***************************************************************************)
\* kms.Service.Sign(keystoreID, keyID, msg): [value, err, store]
srvSign(st, provider, kp, keyID, msg) ==
    IF provider.crypto = MockCrypto
    THEN [value |-> provider.signValue, err |-> provider.signErr, store |-> st]
    ELSE [value |-> SignatureOf(KeyHandle(kp.kms, keyID), msg), err |-> NoErr,
          store |-> st]

\* kms.Service.Verify(keystoreID, keyID, sig, msg): [err, store]
srvVerify(st, provider, kp, keyID, sig, msg) ==
    IF provider.crypto = MockCrypto
    THEN [err |-> provider.verifyErr, store |-> st]
    ELSE [err |-> VerifySignature(KeyHandle(kp.kms, keyID), sig, msg), store |-> st]

\* kms.Service.Encrypt(keystoreID, keyID, msg, aad): [value, nonce, err, store]
srvEncrypt(st, provider, kp, keyID, msg, aad) ==
    IF provider.crypto = MockCrypto
    THEN [value |-> provider.encryptValue, nonce |-> provider.encryptNonce,
          err |-> provider.encryptErr, store |-> st]
    ELSE [value |-> CipherTextOf(KeyHandle(kp.kms, keyID), msg, aad, provider.encryptNonce),
          nonce |-> provider.encryptNonce, err |-> NoErr, store |-> st]

\* kms.Service.Decrypt(keystoreID, keyID, cipher, aad, nonce):
\* [value, err, store]
srvDecrypt(st, provider, kp, keyID, cipher, aad, nonce) ==
    IF provider.crypto = MockCrypto
    THEN [value |-> provider.decryptValue, err |-> provider.decryptErr, store |-> st]
    ELSE LET pt == PlainTextOf(KeyHandle(kp.kms, keyID), cipher, aad, nonce)
         IN  [value |-> pt.value, err |-> pt.err, store |-> st]

(***************************************************************************)
(* The keystore storage: a map from keystore IDs to keystore records       *)
(* {ID, Controller, KeyIDs}, shared by all requests.                       *)
(***************************************************************************)
Keystore(id, controller, keyIDs) ==
    [ID |-> id, Controller |-> controller, KeyIDs |-> keyIDs]

\* Put with a bug: storing a record empties the key IDs of the others
PutClearing(st, k) ==
    [id \in DOMAIN st \cup {k.ID} |->
        IF id = k.ID THEN k ELSE [st[id] EXCEPT !.KeyIDs = <<>>]]

\* store.Put(k.ID, k)
Put(st, k) == [id \in DOMAIN st \cup {k.ID} |-> IF id = k.ID THEN k ELSE st[id]]

(***************************************************************************)
(* The handlers.  A handler is a method of the Operation o: it is run with *)
(* the response writer rw, the request req and the storage st, and env     *)
(* gives, for a provider, the outcomes of the calls made on it during the  *)
(* request.  A handler returns the Operation, the response writer and the  *)
(* storage as it leaves them.                                              *)
(***************************************************************************)
Return(o, rw, st) == [o |-> o, rw |-> rw, store |-> st]

\* the bytes of s as valid UTF-8: a byte that does not start a well-formed
\* sequence becomes U+FFFD (what a JSON string written by the encoder holds
\* once the client has decoded it)
RECURSIVE ToValidUTF8(_)
ToValidUTF8(s) ==
    LET n == Len(s)
        b == s[1]
        size == IF b < 128 THEN 1
                ELSE IF b \in 194..223 THEN 2
                ELSE IF b \in 224..239 THEN 3
                ELSE IF b \in 240..244 THEN 4
                ELSE 0
        lo == IF b = 224 THEN 160 ELSE IF b = 240 THEN 144 ELSE 128
        hi == IF b = 237 THEN 159 ELSE IF b = 244 THEN 143 ELSE 191
        wellFormed == /\ size > 0
                      /\ n >= size
                      /\ size > 1 => s[2] \in lo..hi
                      /\ \A i \in 3..size : s[i] \in 128..191
    IN  IF n = 0 THEN <<>>
        ELSE IF wellFormed
        THEN SubSeq(s, 1, size) \o ToValidUTF8(SubSeq(s, size + 1, n))
        ELSE <<239, 191, 189>> \o ToValidUTF8(SubSeq(s, 2, n))

signResp(signature) == [signature |-> signature]
encryptResp(cipherText, nonce) == [cipherText |-> cipherText, nonce |-> nonce]
\* decryptResp{PlainText: string(plainText)}, the string being held as the
\* JSON encoder writes it
decryptResp(plainText) == [plainText |-> ToValidUTF8(plainText)]

\* signHandler with a bug: a failed Sign is tried once more
signHandlerRetrying(o, rw, req, env, st) ==
    LET p == parseRequest(signReq, rw, req)
    IN  IF ~p.ok THEN Return(o, p.rw, st) ELSE
    LET keystoreID == req.vars[keystoreIDQueryParam]
        keyID == req.vars[keyIDQueryParam]
        kp == prepareKMSProvider(p.rw, env[o.provider], keystoreID, p.request.passphrase)
    IN  IF kp.provider = Nil THEN Return(o, kp.rw, st) ELSE
    LET sg == srvSign(st, env[o.provider], kp.provider, keyID, p.request.message)
        args == [provider |-> kp.provider, keystoreID |-> keystoreID, keyID |-> keyID,
                 msg |-> p.request.message]
        rw1 == Called(kp.rw, "Sign", args, sg.err)
        rw2 == IF sg.err # NoErr THEN Called(rw1, "Sign", args, sg.err) ELSE rw1
    IN  IF sg.err # NoErr
        THEN Return(o, writeErrorResponse(rw2, StatusInternalServerError,
                                          Sprintf(signMessageFailure, sg.err)), sg.store)
        ELSE Return(o, writeResponse(rw2, signResp(EncodeToString(sg.value))), sg.store)

signHandler(o, rw, req, env, st) ==
    LET p == parseRequest(signReq, rw, req)
    IN  IF ~p.ok THEN Return(o, p.rw, st) ELSE
    LET keystoreID == req.vars[keystoreIDQueryParam]
        keyID == req.vars[keyIDQueryParam]
        kp == prepareKMSProvider(p.rw, env[o.provider], keystoreID, p.request.passphrase)
    IN  IF kp.provider = Nil THEN Return(o, kp.rw, st) ELSE
    LET sg == srvSign(st, env[o.provider], kp.provider, keyID, p.request.message)
        rw1 == Called(kp.rw, "Sign",
                      [provider |-> kp.provider, keystoreID |-> keystoreID, keyID |-> keyID,
                       msg |-> p.request.message], sg.err)
    IN  IF sg.err # NoErr
        THEN Return(o, writeErrorResponse(rw1, StatusInternalServerError,
                                          Sprintf(signMessageFailure, sg.err)), sg.store)
        ELSE Return(o, writeResponse(rw1, signResp(EncodeToString(sg.value))), sg.store)

\* verifyStatus with a bug: the invalid signature is not told apart
verifyStatusAlways500(err) == StatusInternalServerError

\* verifyStatus with a bug: every error of the verification is taken for
\* an invalid signature
verifyStatusAlways200(err) == StatusOK

\* the status of a verify request whose verification returned err
verifyStatus(err) ==
    IF errorsIs(err, ErrInvalidSignature)
    THEN StatusOK
    ELSE StatusInternalServerError

\* verifyHandler with a bug: the bundle made for the request is kept in the
\* Operation as its provider
verifyHandlerKeepingProvider(o, rw, req, env, st) ==
    LET p == parseRequest(verifyReq, rw, req)
    IN  IF ~p.ok THEN Return(o, p.rw, st) ELSE
    LET keystoreID == req.vars[keystoreIDQueryParam]
        keyID == req.vars[keyIDQueryParam]
        kp == prepareKMSProvider(p.rw, env[o.provider], keystoreID, p.request.passphrase)
    IN  IF kp.provider = Nil THEN Return(o, kp.rw, st) ELSE
    LET kept == [o EXCEPT !.provider = kp.provider]
        signature == DecodeString(p.request.signature)
        rw1 == Called(kp.rw, "DecodeString", <<"signature">>, signature.err)
    IN  IF signature.err # NoErr
        THEN Return(kept, writeErrorResponse(rw1, StatusBadRequest,
                                             Sprintf(receivedBadRequest, signature.err)), st)
        ELSE
    LET v == srvVerify(st, env[o.provider], kp.provider, keyID, signature.out,
                       p.request.message)
        rw2 == Called(rw1, "Verify",
                      [provider |-> kp.provider, keystoreID |-> keystoreID, keyID |-> keyID,
                       sig |-> signature.out, msg |-> p.request.message], v.err)
    IN  IF v.err # NoErr
        THEN Return(kept, writeErrorResponse(rw2, verifyStatus(v.err),
                                             Sprintf(verifyMessageFailure, v.err)), v.store)
        ELSE Return(kept, WriteHeader(rw2, StatusOK), v.store)

verifyHandler(o, rw, req, env, st) ==
    LET p == parseRequest(verifyReq, rw, req)
    IN  IF ~p.ok THEN Return(o, p.rw, st) ELSE
    LET keystoreID == req.vars[keystoreIDQueryParam]
        keyID == req.vars[keyIDQueryParam]
        kp == prepareKMSProvider(p.rw, env[o.provider], keystoreID, p.request.passphrase)
    IN  IF kp.provider = Nil THEN Return(o, kp.rw, st) ELSE
    LET signature == DecodeString(p.request.signature)
        rw1 == Called(kp.rw, "DecodeString", <<"signature">>, signature.err)
    IN  IF signature.err # NoErr
        THEN Return(o, writeErrorResponse(rw1, StatusBadRequest,
                                          Sprintf(receivedBadRequest, signature.err)), st)
        ELSE
    LET v == srvVerify(st, env[o.provider], kp.provider, keyID, signature.out,
                       p.request.message)
        rw2 == Called(rw1, "Verify",
                      [provider |-> kp.provider, keystoreID |-> keystoreID, keyID |-> keyID,
                       sig |-> signature.out, msg |-> p.request.message], v.err)
    IN  IF v.err # NoErr
        THEN Return(o, writeErrorResponse(rw2, verifyStatus(v.err),
                                          Sprintf(verifyMessageFailure, v.err)), v.store)
        ELSE Return(o, WriteHeader(rw2, StatusOK), v.store)

\* encryptHandler with a bug: the key of the request is entered in the
\* record of its keystore, which is saved
encryptHandlerSavingKey(o, rw, req, env, st) ==
    LET p == parseRequest(encryptReq, rw, req)
    IN  IF ~p.ok THEN Return(o, p.rw, st) ELSE
    LET keystoreID == req.vars[keystoreIDQueryParam]
        keyID == req.vars[keyIDQueryParam]
        kp == prepareKMSProvider(p.rw, env[o.provider], keystoreID, p.request.passphrase)
    IN  IF kp.provider = Nil THEN Return(o, kp.rw, st) ELSE
    LET en == srvEncrypt(st, env[o.provider], kp.provider, keyID, p.request.message,
                         p.request.aad)
        saved == IF keystoreID \in DOMAIN en.store
                 THEN Put(en.store, [en.store[keystoreID] EXCEPT !.KeyIDs = Append(@, keyID)])
                 ELSE en.store
        rw1 == Called(kp.rw, "Encrypt",
                      [provider |-> kp.provider, keystoreID |-> keystoreID, keyID |-> keyID,
                       msg |-> p.request.message, aad |-> p.request.aad], en.err)
    IN  IF en.err # NoErr
        THEN Return(o, writeErrorResponse(rw1, StatusInternalServerError,
                                          Sprintf(encryptMessageFailure, en.err)), saved)
        ELSE Return(o, writeResponse(rw1, encryptResp(EncodeToString(en.value),
                                                      EncodeToString(en.nonce))), saved)

encryptHandler(o, rw, req, env, st) ==
    LET p == parseRequest(encryptReq, rw, req)
    IN  IF ~p.ok THEN Return(o, p.rw, st) ELSE
    LET keystoreID == req.vars[keystoreIDQueryParam]
        keyID == req.vars[keyIDQueryParam]
        kp == prepareKMSProvider(p.rw, env[o.provider], keystoreID, p.request.passphrase)
    IN  IF kp.provider = Nil THEN Return(o, kp.rw, st) ELSE
    LET en == srvEncrypt(st, env[o.provider], kp.provider, keyID, p.request.message,
                         p.request.aad)
        rw1 == Called(kp.rw, "Encrypt",
                      [provider |-> kp.provider, keystoreID |-> keystoreID, keyID |-> keyID,
                       msg |-> p.request.message, aad |-> p.request.aad], en.err)
    IN  IF en.err # NoErr
        THEN Return(o, writeErrorResponse(rw1, StatusInternalServerError,
                                          Sprintf(encryptMessageFailure, en.err)), en.store)
        ELSE Return(o, writeResponse(rw1, encryptResp(EncodeToString(en.value),
                                                      EncodeToString(en.nonce))), en.store)

\* decryptHandler with a bug: the error of Decrypt is not checked
decryptHandlerUnchecked(o, rw, req, env, st) ==
    LET p == parseRequest(decryptReq, rw, req)
    IN  IF ~p.ok THEN Return(o, p.rw, st) ELSE
    LET keystoreID == req.vars[keystoreIDQueryParam]
        keyID == req.vars[keyIDQueryParam]
        kp == prepareKMSProvider(p.rw, env[o.provider], keystoreID, p.request.passphrase)
    IN  IF kp.provider = Nil THEN Return(o, kp.rw, st) ELSE
    LET cipherText == DecodeString(p.request.cipherText)
        rw1 == Called(kp.rw, "DecodeString", <<"cipherText">>, cipherText.err)
    IN  IF cipherText.err # NoErr
        THEN Return(o, writeErrorResponse(rw1, StatusBadRequest,
                                          Sprintf(receivedBadRequest, cipherText.err)), st)
        ELSE
    LET nonce == DecodeString(p.request.nonce)
        rw2 == Called(rw1, "DecodeString", <<"nonce">>, nonce.err)
    IN  IF nonce.err # NoErr
        THEN Return(o, writeErrorResponse(rw2, StatusBadRequest,
                                          Sprintf(receivedBadRequest, nonce.err)), st)
        ELSE
    LET de == srvDecrypt(st, env[o.provider], kp.provider, keyID, cipherText.out,
                         p.request.aad, nonce.out)
        rw3 == Called(rw2, "Decrypt",
                      [provider |-> kp.provider, keystoreID |-> keystoreID, keyID |-> keyID,
                       cipher |-> cipherText.out, aad |-> p.request.aad,
                       nonce |-> nonce.out], de.err)
    IN  Return(o, writeResponse(rw3, decryptResp(de.value)), de.store)

decryptHandler(o, rw, req, env, st) ==
    LET p == parseRequest(decryptReq, rw, req)
    IN  IF ~p.ok THEN Return(o, p.rw, st) ELSE
    LET keystoreID == req.vars[keystoreIDQueryParam]
        keyID == req.vars[keyIDQueryParam]
        kp == prepareKMSProvider(p.rw, env[o.provider], keystoreID, p.request.passphrase)
    IN  IF kp.provider = Nil THEN Return(o, kp.rw, st) ELSE
    LET cipherText == DecodeString(p.request.cipherText)
        rw1 == Called(kp.rw, "DecodeString", <<"cipherText">>, cipherText.err)
    IN  IF cipherText.err # NoErr
        THEN Return(o, writeErrorResponse(rw1, StatusBadRequest,
                                          Sprintf(receivedBadRequest, cipherText.err)), st)
        ELSE
    LET nonce == DecodeString(p.request.nonce)
        rw2 == Called(rw1, "DecodeString", <<"nonce">>, nonce.err)
    IN  IF nonce.err # NoErr
        THEN Return(o, writeErrorResponse(rw2, StatusBadRequest,
                                          Sprintf(receivedBadRequest, nonce.err)), st)
        ELSE
    LET de == srvDecrypt(st, env[o.provider], kp.provider, keyID, cipherText.out,
                         p.request.aad, nonce.out)
        rw3 == Called(rw2, "Decrypt",
                      [provider |-> kp.provider, keystoreID |-> keystoreID, keyID |-> keyID,
                       cipher |-> cipherText.out, aad |-> p.request.aad,
                       nonce |-> nonce.out], de.err)
    IN  IF de.err # NoErr
        THEN Return(o, writeErrorResponse(rw3, StatusInternalServerError,
                                          Sprintf(decryptMessageFailure, de.err)), de.store)
        ELSE Return(o, writeResponse(rw3, decryptResp(de.value)), de.store)

(***************************************************************************)
(* Create keystore.  The keystore service generates the identifier of the  *)
(* keystore: a fresh unique one, the n-th it generates being the n-th of   *)
(* NewKeystoreIDs.                                                         *)
(***************************************************************************)
NewKeystoreIDs == <<"keystore-1", "keystore-2">>

\* keystore.Service.Create(controller): [keystoreID, err, store, generated]
srvCreate(st, generated, controller, provider) ==
    LET id == NewKeystoreIDs[generated + 1]
    IN  IF provider.putErr # NoErr
        THEN [keystoreID |-> "", err |-> provider.putErr, store |-> st,
              generated |-> generated + 1]
        ELSE [keystoreID |-> id, err |-> NoErr,
              store |-> Put(st, Keystore(id, controller, <<>>)),
              generated |-> generated + 1]

\* createKeystoreHandler with a bug: the Location is made of the controller
\* of the request, not of the identifier Create returned
createKeystoreHandlerOfController(o, rw, req, env, st, generated) ==
    LET p == parseRequest(createKeystoreReq, rw, req)
    IN  IF ~p.ok THEN [o |-> o, rw |-> p.rw, store |-> st, generated |-> generated] ELSE
    LET rw1 == Called(p.rw, "NewRepository", <<>>, env[o.provider].repoErr)
    IN  IF env[o.provider].repoErr # NoErr
        THEN [o |-> o, store |-> st, generated |-> generated,
              rw |-> writeErrorResponse(rw1, StatusInternalServerError,
                                        Sprintf(createKeystoreFailure,
                                                env[o.provider].repoErr))]
        ELSE
    LET c == srvCreate(st, generated, p.request.controller, env[o.provider])
        rw2 == Called(rw1, "Create", <<p.request.controller>>, c.err)
    IN  IF c.err # NoErr
        THEN [o |-> o, store |-> st, generated |-> c.generated,
              rw |-> writeErrorResponse(rw2, StatusInternalServerError,
                                        Sprintf(createKeystoreFailure, c.err))]
        ELSE [o |-> o, store |-> c.store, generated |-> c.generated,
              rw |-> WriteHeader(SetLocation(rw2, keystoreLocation(req.host,
                                                                   p.request.controller)),
                                 StatusCreated)]

\* [o, rw, store, generated]
createKeystoreHandler(o, rw, req, env, st, generated) ==
    LET p == parseRequest(createKeystoreReq, rw, req)
    IN  IF ~p.ok THEN [o |-> o, rw |-> p.rw, store |-> st, generated |-> generated] ELSE
    LET rw1 == Called(p.rw, "NewRepository", <<>>, env[o.provider].repoErr)
    IN  IF env[o.provider].repoErr # NoErr
        THEN [o |-> o, store |-> st, generated |-> generated,
              rw |-> writeErrorResponse(rw1, StatusInternalServerError,
                                        Sprintf(createKeystoreFailure,
                                                env[o.provider].repoErr))]
        ELSE
    LET c == srvCreate(st, generated, p.request.controller, env[o.provider])
        rw2 == Called(rw1, "Create", <<p.request.controller>>, c.err)
    IN  IF c.err # NoErr
        THEN [o |-> o, store |-> st, generated |-> c.generated,
              rw |-> writeErrorResponse(rw2, StatusInternalServerError,
                                        Sprintf(createKeystoreFailure, c.err))]
        ELSE [o |-> o, store |-> c.store, generated |-> c.generated,
              rw |-> WriteHeader(SetLocation(rw2, keystoreLocation(req.host, c.keystoreID)),
                                 StatusCreated)]

(***************************************************************************)
(* Create key.  The KMS service reads the keystore, has the key manager    *)
(* create the key, appends the key ID to the record it read and saves the  *)
(* record.  Other requests can run between the read and the save.          *)
(***************************************************************************)
\* keystore.Repository.Get(keystoreID): [k, err]
repoGet(st, keystoreID, provider) ==
    IF provider.getErr # NoErr
    THEN [k |-> Keystore("", "", <<>>), err |-> provider.getErr]
    ELSE IF keystoreID \notin DOMAIN st
    THEN [k |-> Keystore("", "", <<>>), err |-> "keystore not found"]
    ELSE [k |-> st[keystoreID], err |-> NoErr]

\* keystore.Repository.Save(k): [store, err]
repoSave(st, k, putErr) ==
    IF putErr # NoErr
    THEN [store |-> st, err |-> putErr]
    ELSE [store |-> Put(st, k), err |-> NoErr]

\* the part of srv.CreateKey before the save: [k, keyID, err], k being the
\* record to save
srvCreateKeyRead(st, keystoreID, provider) ==
    LET g == repoGet(st, keystoreID, provider)
    IN  IF g.err # NoErr THEN [k |-> g.k, keyID |-> "", err |-> g.err]
        ELSE IF provider.createKeyErr # NoErr
        THEN [k |-> g.k, keyID |-> "", err |-> provider.createKeyErr]
        ELSE [k |-> [g.k EXCEPT !.KeyIDs = Append(@, provider.createKeyID)],
              keyID |-> provider.createKeyID, err |-> NoErr]

\* createKeyHandlerRead with a bug: when the provider could not be created,
\* the failure is answered and the handler goes on all the same
createKeyHandlerReadNoReturn(o, rw, req, env, st) ==
    LET p == parseRequest(createKeyReq, rw, req)
        none == Keystore("", "", <<>>)
    IN  IF ~p.ok
        THEN [saving |-> FALSE, o |-> o, rw |-> p.rw, k |-> none, keyID |-> ""] ELSE
    LET keystoreID == req.vars[keystoreIDQueryParam]
        kp == prepareKMSProvider(p.rw, env[o.provider], keystoreID, p.request.passphrase)
        r == srvCreateKeyRead(st, keystoreID, env[o.provider])
        rw1 == Called(kp.rw, "CreateKey",
                      [provider |-> kp.provider, keystoreID |-> keystoreID,
                       keyType |-> p.request.keyType], r.err)
    IN  IF r.err # NoErr
        THEN [saving |-> FALSE, o |-> o, k |-> none, keyID |-> "",
              rw |-> writeErrorResponse(rw1, StatusInternalServerError,
                                        Sprintf(createKeyFailure, r.err))]
        ELSE [saving |-> TRUE, o |-> o, rw |-> rw1, k |-> r.k, keyID |-> r.keyID]

\* createKeyHandler up to the save: [saving, o, rw, k, keyID]; saving says
\* that the handler has not returned and the save is next
createKeyHandlerRead(o, rw, req, env, st) ==
    LET p == parseRequest(createKeyReq, rw, req)
        none == Keystore("", "", <<>>)
    IN  IF ~p.ok
        THEN [saving |-> FALSE, o |-> o, rw |-> p.rw, k |-> none, keyID |-> ""] ELSE
    LET keystoreID == req.vars[keystoreIDQueryParam]
        kp == prepareKMSProvider(p.rw, env[o.provider], keystoreID, p.request.passphrase)
    IN  IF kp.provider = Nil
        THEN [saving |-> FALSE, o |-> o, rw |-> kp.rw, k |-> none, keyID |-> ""] ELSE
    LET r == srvCreateKeyRead(st, keystoreID, env[o.provider])
        rw1 == Called(kp.rw, "CreateKey",
                      [provider |-> kp.provider, keystoreID |-> keystoreID,
                       keyType |-> p.request.keyType], r.err)
    IN  IF r.err # NoErr
        THEN [saving |-> FALSE, o |-> o, k |-> none, keyID |-> "",
              rw |-> writeErrorResponse(rw1, StatusInternalServerError,
                                        Sprintf(createKeyFailure, r.err))]
        ELSE [saving |-> TRUE, o |-> o, rw |-> rw1, k |-> r.k, keyID |-> r.keyID]

\* createKeyHandlerSave with a bug: the error of the save is not checked
createKeyHandlerSaveUnchecked(o, rw, req, k, keyID, putErr, st) ==
    LET keystoreID == req.vars[keystoreIDQueryParam]
        sv == repoSave(st, k, putErr)
    IN  Return(o, WriteHeader(SetLocation(Returned(rw, sv.err),
                                          keyLocation(req.host, keystoreID, keyID)),
                              StatusCreated), sv.store)

\* createKeyHandler from the save on
createKeyHandlerSave(o, rw, req, k, keyID, putErr, st) ==
    LET keystoreID == req.vars[keystoreIDQueryParam]
        sv == repoSave(st, k, putErr)
    IN  IF sv.err # NoErr
        THEN Return(o, writeErrorResponse(Returned(rw, sv.err), StatusInternalServerError,
                                          Sprintf(createKeyFailure, sv.err)), st)
        ELSE Return(o, WriteHeader(SetLocation(rw, keyLocation(req.host, keystoreID, keyID)),
                                   StatusCreated), sv.store)

(***************************************************************************)
(* The Operation: the handlers registered at construction and the injected *)
(* provider.                                                               *)
(***************************************************************************)
\* support.NewHTTPHandler(path, method, handle)
NewHTTPHandler(path, method, handle) ==
    [path |-> path, method |-> method, handle |-> handle]

registerHandlers(o) ==
    [o EXCEPT !.handlers =
        <<NewHTTPHandler(keystoresEndpoint, "POST", "createKeystore"),
          NewHTTPHandler(keysEndpoint, "POST", "createKey"),
          NewHTTPHandler(signEndpoint, "POST", "sign"),
          NewHTTPHandler(verifyEndpoint, "POST", "verify"),
          NewHTTPHandler(encryptEndpoint, "POST", "encrypt"),
          NewHTTPHandler(decryptEndpoint, "POST", "decrypt")>>]

New(provider) == registerHandlers([handlers |-> <<>>, provider |-> provider])

GetRESTHandlers(o) == o.handlers

\* the server routes a request to the handler registered under its name
Registered(o, handle) ==
    \E i \in DOMAIN GetRESTHandlers(o) : GetRESTHandlers(o)[i].handle = handle
(***************************************************************************)
(* The inputs: requests and collaborator outcomes.                         *)
(***************************************************************************)
Hosts == {"localhost:8070"}
KeystoreIDs == {testKeystoreID} \cup {NewKeystoreIDs[i] : i \in DOMAIN NewKeystoreIDs}
\* the key IDs the key manager returns: the one of the tests' mock, which
\* is the ID of the key the test keystore already holds, and another
KeyIDs == {testKeyID, "key-1"}
\* the keystore IDs in the paths of requests
PathKeystoreIDs == {testKeystoreID, "keystore-1"}
Passphrases == {"passphrase"}
testMessage == <<116, 101, 115, 116>>
testAAD == <<97, 97, 100>>
testSignature == <<115, 105, 103>>
testCipherText == <<99, 116>>
testNonce == <<110>>
testPlainText == <<112, 116>>

\* values of a base64 field: a well-formed one, and one with a character
\* outside the alphabet
Base64Values(bytes) == {EncodeToString(bytes), <<BadChar>> \o EncodeToString(bytes)}

\* the bodies of the requests whose JSON objects are objs: besides them, the
\* empty body and a body that is not JSON
Bodies(objs) == {EmptyBody, SyntaxBody} \cup {ObjectBody(o) : o \in objs}

KeystoreVars == [keystoreID : PathKeystoreIDs]
KeyVars == [keystoreID : PathKeystoreIDs, keyID : {testKeyID}]

Requests(bodies, vars) == [body : bodies, vars : vars, host : Hosts]

\* a create-keystore request may leave the controller out or empty
CreateKeystoreRequests ==
    Requests(Bodies([controller : {testController, ""}]) \cup {ObjectBody(<<>>)}, {<<>>})
\* a create-key request may leave the passphrase out
CreateKeyRequests ==
    Requests(Bodies([keyType : {testKeyType}, passphrase : Passphrases])
               \cup {ObjectBody([keyType |-> testKeyType])}, KeystoreVars)
SignRequests ==
    Requests(Bodies([message : {testMessage}, passphrase : Passphrases]), KeyVars)
VerifyRequests ==
    Requests(Bodies([signature : Base64Values(testSignature)
                                     \cup {SubSeq(EncodeToString(testSignature), 1, 3)},
                     message : {testMessage}, passphrase : Passphrases]), KeyVars)
EncryptRequests ==
    Requests(Bodies([message : {testMessage}, aad : {testAAD},
                     passphrase : Passphrases]), KeyVars)
DecryptRequests ==
    Requests(Bodies([cipherText : Base64Values(testCipherText), aad : {testAAD},
                     nonce : Base64Values(testNonce), passphrase : Passphrases]), KeyVars)
\* the well-formed create-keystore and create-key requests
GoodCreateKeystoreRequests ==
    Requests({ObjectBody([controller |-> testController])}, {<<>>})
GoodCreateKeyRequests ==
    Requests({ObjectBody([keyType |-> testKeyType, passphrase |-> "passphrase"])},
             KeystoreVars)

CreateStoreErrs == {NoErr, "create store error", "open store error"}
RepoErrs == {NoErr, "open store error"}
KMSCreatorErrs == {NoErr, "kms creator error"}
PutErrs == {NoErr, "store put error"}
GetErrs == {NoErr, "store get error"}
CreateKeyErrs == {NoErr, "create key error"}
SignErrs == {NoErr, "sign error"}
VerifyErrs == {NoErr, ErrInvalidSignature, "verify error"} \cup WrapsInvalidSignature
EncryptErrs == {NoErr, "encrypt error"}
DecryptErrs == {NoErr, "decrypt error"}

\* the outcomes of a call that follows a call that returned prev: a call
\* that is not made has no outcome
After(prev, errs) == IF prev = NoErr THEN errs ELSE {NoErr}

(***************************************************************************)
(* The state.                                                              *)
(*   store  the keystore storage                                           *)
(*   generated  the number of identifiers the keystore service has         *)
(*          generated                                                      *)
(*   ck     the concurrent create-key requests, one per goroutine: pc is   *)
(*          "idle" before the request, "saving" between the read and the   *)
(*          save of the keystore record, "done" after the response; rw is  *)
(*          the response writer of the request                             *)
(*   resp   the request answered last and its response writer, until the   *)
(*          client has taken the response; there is none after a step in   *)
(*          which a create-key request has run up to its save              *)
(*   prev   the request handled before, and its response writer, when the  *)
(*          client has built the last request from that response           *)
(*   operation  the Operation whose methods the handlers are               *)
(***************************************************************************)
VARIABLES store, generated, ck, resp, prev, operation

vars == <<store, generated, ck, resp, prev, operation>>

Goroutines == 1..MaxCreateKey

\* the goroutines that serve requests where requests of every kind are served
LiveGoroutines == {g \in Goroutines : g <= 2}

NoRequest == [body |-> EmptyBody, vars |-> <<>>, host |-> ""]
NoKeystore == Keystore("", "", <<>>)
Idle ==
    [pc |-> "idle", req |-> NoRequest, rw |-> NewRecorder(FALSE),
     k |-> NoKeystore, keyID |-> ""]
Done(req, rw, keyID) ==
    [pc |-> "done", req |-> req, rw |-> rw, k |-> NoKeystore, keyID |-> keyID]

\* the provider handed to New: the mock provider of the tests
InjectedProvider ==
    [StorageProvider |-> "MockStorage", KMSCreator |-> "KMSCreator", Crypto |-> "MockCrypto"]

\* the calls made on the injected provider during a request have these
\* outcomes
Injected(outcomes) == [provider \in {InjectedProvider} |-> outcomes]

NoExchange == [ep |-> "none", req |-> NoRequest, rw |-> NewRecorder(FALSE)]

\* the storage of the tests: the test keystore with the test key
Init ==
    /\ store = [id \in {testKeystoreID} |->
                  Keystore(testKeystoreID, testController, <<testKeyID>>)]
    /\ generated = 0
    /\ ck = [g \in Goroutines |-> Idle]
    /\ resp = NoExchange
    /\ prev = NoExchange
    /\ operation = New(InjectedProvider)

\* the handler of the request has returned h: the request is answered; it
\* was not built from an earlier response
Responded(ep, req, h) ==
    /\ Registered(operation, ep)
    /\ resp' = [ep |-> ep, req |-> req, rw |-> h.rw]
    /\ prev' = NoExchange
    /\ operation' = h.o
    /\ store' = h.store

\* the handler of the request, built from the response handled last, has
\* returned h
RespondedNext(ep, req, h) ==
    /\ Registered(operation, ep)
    /\ resp' = [ep |-> ep, req |-> req, rw |-> h.rw]
    /\ prev' = resp
    /\ operation' = h.o
    /\ store' = h.store

\* the number of keys in the storage
RECURSIVE TotalKeys(_)
TotalKeys(st) ==
    IF DOMAIN st = {} THEN 0
    ELSE LET id == CHOOSE i \in DOMAIN st : TRUE
         IN  Len(st[id].KeyIDs) + TotalKeys([i \in DOMAIN st \ {id} |-> st[i]])

\* the size of the storage: its keystores and keys, and one for every
\* keystore other than id that a create-key request is about to save
StoreSize(st, c, id) ==
    Cardinality(DOMAIN st) + TotalKeys(st)
      + Cardinality({c[g].k.ID : g \in {h \in DOMAIN c : c[h].pc = "saving"}} \ {id})

\* a create-keystore request out of reqs, while the keystore service has
\* identifiers left
CreateKeystoreOf(reqs, failings, repoErrs) ==
    /\ generated < Len(NewKeystoreIDs)
    /\ \E req \in reqs, failing \in failings, repoErr \in repoErrs :
       \E putErr \in After(repoErr, PutErrs) :
        LET provider == [repoErr |-> repoErr, putErr |-> putErr]
            h == createKeystoreHandler(operation, NewRecorder(failing), req,
                                       Injected(provider), store, generated)
        IN  /\ Responded("createKeystore", req, h)
            /\ generated' = h.generated
            /\ UNCHANGED ck

(***************************************************************************)
(* Requests of every kind with every outcome.  The first goroutine takes   *)
(* any request, whose collaborator calls return with any outcome; the      *)
(* second takes well-formed create-key requests whose collaborators are    *)
(* healthy up to the save.  A create-key request takes two steps, and the  *)
(* steps of the two goroutines interleave: a request of one is handled     *)
(* between the read and the save of the other, for the same keystore or    *)
(* for another.  The client takes a response before the next step.         *)
(***************************************************************************)
CreateKeystore ==
    /\ resp = NoExchange
    /\ ck[1].pc = "idle"
    /\ StoreSize(store, ck, "") < MaxStoreSize
    /\ CreateKeystoreOf(CreateKeystoreRequests, BOOLEAN, CreateStoreErrs)

\* a create-key request runs up to the save of the keystore record, or is
\* answered when it fails before
CreateKey(g) ==
    /\ resp = NoExchange
    /\ ck[g].pc = "idle"
    /\ \E req \in {r \in IF g = 1 THEN CreateKeyRequests ELSE GoodCreateKeyRequests :
                     StoreSize(store, ck, r.vars[keystoreIDQueryParam]) < MaxStoreSize},
          failing \in IF g = 1 THEN BOOLEAN ELSE {FALSE},
          repoErr \in IF g = 1 THEN RepoErrs ELSE {NoErr} :
       \E kmsErr \in After(repoErr, IF g = 1 THEN KMSCreatorErrs ELSE {NoErr}) :
       \E getErr \in After(kmsErr, IF g = 1 THEN GetErrs ELSE {NoErr}) :
       \E createKeyErr \in After(getErr, IF g = 1 THEN CreateKeyErrs ELSE {NoErr}) :
       \E createKeyID \in IF g = 1 THEN KeyIDs ELSE {"key-1"} :
        LET provider == [repoErr |-> repoErr, kmsErr |-> kmsErr, getErr |-> getErr,
                         createKeyErr |-> createKeyErr, createKeyID |-> createKeyID]
            r == createKeyHandlerRead(operation, NewRecorder(failing), req,
                                      Injected(provider), store)
        IN  IF r.saving
            THEN /\ ck' = [ck EXCEPT ![g] = [pc |-> "saving", req |-> req, rw |-> r.rw,
                                             k |-> r.k, keyID |-> r.keyID]]
                 /\ resp' = NoExchange
                 /\ prev' = NoExchange
                 /\ operation' = r.o
                 /\ UNCHANGED <<store, generated>>
            ELSE /\ Responded("createKey", req, [o |-> r.o, rw |-> r.rw, store |-> store])
                 /\ UNCHANGED <<ck, generated>>

\* the create-key request saves the record it has read and extended, with an
\* outcome out of putErrs, and is answered; other requests may have been
\* handled since it read the record
CreateKeyEnd(g, putErrs) ==
    /\ ck[g].pc = "saving"
    /\ \E putErr \in putErrs :
        LET h == createKeyHandlerSave(operation, ck[g].rw, ck[g].req, ck[g].k,
                                      ck[g].keyID, putErr, store)
        IN  /\ ck' = [ck EXCEPT ![g] = Idle]
            /\ Responded("createKey", ck[g].req, h)
            /\ UNCHANGED generated

Sign ==
    /\ resp = NoExchange
    /\ ck[1].pc = "idle"
    /\ \E req \in SignRequests, failing \in BOOLEAN, repoErr \in RepoErrs :
       \E kmsErr \in After(repoErr, KMSCreatorErrs) :
       \E signErr \in After(kmsErr, SignErrs) :
           LET provider == [repoErr |-> repoErr, kmsErr |-> kmsErr,
                            signErr |-> signErr, signValue |-> testSignature,
                            crypto |-> MockCrypto]
           IN  /\ Responded("sign", req,
                            signHandler(operation, NewRecorder(failing), req,
                                        Injected(provider), store))
               /\ UNCHANGED <<ck, generated>>

Verify ==
    /\ resp = NoExchange
    /\ ck[1].pc = "idle"
    /\ \E req \in VerifyRequests, failing \in BOOLEAN, repoErr \in RepoErrs :
       \E kmsErr \in After(repoErr, KMSCreatorErrs) :
       \E verifyErr \in After(kmsErr, VerifyErrs) :
           LET provider == [repoErr |-> repoErr, kmsErr |-> kmsErr, verifyErr |-> verifyErr,
                            crypto |-> MockCrypto]
           IN  /\ Responded("verify", req,
                            verifyHandler(operation, NewRecorder(failing), req,
                                          Injected(provider), store))
               /\ UNCHANGED <<ck, generated>>

Encrypt ==
    /\ resp = NoExchange
    /\ ck[1].pc = "idle"
    /\ \E req \in EncryptRequests, failing \in BOOLEAN, repoErr \in RepoErrs :
       \E kmsErr \in After(repoErr, KMSCreatorErrs) :
       \E encryptErr \in After(kmsErr, EncryptErrs) :
           LET provider == [repoErr |-> repoErr, kmsErr |-> kmsErr,
                            encryptErr |-> encryptErr, encryptValue |-> testCipherText,
                            encryptNonce |-> testNonce, crypto |-> MockCrypto]
           IN  /\ Responded("encrypt", req,
                            encryptHandler(operation, NewRecorder(failing), req,
                                           Injected(provider), store))
               /\ UNCHANGED <<ck, generated>>

Decrypt ==
    /\ resp = NoExchange
    /\ ck[1].pc = "idle"
    /\ \E req \in DecryptRequests, failing \in BOOLEAN, repoErr \in RepoErrs :
       \E kmsErr \in After(repoErr, KMSCreatorErrs) :
       \E decryptErr \in After(kmsErr, DecryptErrs) :
           LET provider == [repoErr |-> repoErr, kmsErr |-> kmsErr,
                            decryptErr |-> decryptErr, decryptValue |-> testPlainText,
                            crypto |-> MockCrypto]
           IN  /\ Responded("decrypt", req,
                            decryptHandler(operation, NewRecorder(failing), req,
                                           Injected(provider), store))
               /\ UNCHANGED <<ck, generated>>

\* the client takes the response of the request answered last
Deliver ==
    /\ resp # NoExchange
    /\ resp' = NoExchange
    /\ UNCHANGED <<store, generated, ck, prev, operation>>

Next ==
    \/ CreateKeystore
    \/ \E g \in LiveGoroutines : CreateKey(g)
    \/ \E g \in LiveGoroutines : resp = NoExchange /\ CreateKeyEnd(g, PutErrs)
    \/ Sign
    \/ Verify
    \/ Encrypt
    \/ Decrypt
    \/ Deliver

Spec == Init /\ [][Next]_vars

(***************************************************************************)
(* Concurrent requests: well-formed create-key requests, one per           *)
(* goroutine, and create-keystore requests.  A create-key request takes    *)
(* two steps, and the steps of the requests interleave.                    *)
(***************************************************************************)
\* a create-key request runs up to the save of the keystore record
CreateKeyRead(g) ==
    /\ ck[g].pc = "idle"
    /\ Registered(operation, "createKey")
    /\ \E req \in GoodCreateKeyRequests, createKeyID \in KeyIDs :
        LET provider == [repoErr |-> NoErr, kmsErr |-> NoErr, getErr |-> NoErr,
                         createKeyErr |-> NoErr, createKeyID |-> createKeyID]
            r == createKeyHandlerRead(operation, NewRecorder(FALSE), req,
                                      Injected(provider), store)
        IN  /\ ck' = [ck EXCEPT ![g] =
                        IF r.saving
                        THEN [pc |-> "saving", req |-> req, rw |-> r.rw,
                              k |-> r.k, keyID |-> r.keyID]
                        ELSE Done(req, r.rw, "")]
            /\ operation' = r.o
            /\ UNCHANGED <<store, generated, resp, prev>>

\* the request saves the record it has read and extended, and responds
CreateKeySave(g) ==
    /\ ck[g].pc = "saving"
    /\ \E putErr \in PutErrs :
        LET h == createKeyHandlerSave(operation, ck[g].rw, ck[g].req, ck[g].k,
                                      ck[g].keyID, putErr, store)
        IN  /\ store' = h.store
            /\ ck' = [ck EXCEPT ![g] = Done(ck[g].req, h.rw, ck[g].keyID)]
            /\ operation' = h.o
            /\ UNCHANGED <<generated, resp, prev>>

ConcCreateKeystore == CreateKeystoreOf(GoodCreateKeystoreRequests, {FALSE}, {NoErr})

ConcNext ==
    \/ ConcCreateKeystore
    \/ \E g \in Goroutines : CreateKeyRead(g)
    \/ \E g \in Goroutines : CreateKeySave(g)

ConcSpec == Init /\ [][ConcNext]_vars

(***************************************************************************)
(* Requests from reception to response.  A goroutine receives a request    *)
(* for one of the six endpoints and then runs its handler, whose            *)
(* collaborator calls return with any outcome; create-key takes two steps,  *)
(* as above.  The first goroutine receives any request, the others         *)
(* well-formed create-key requests, whose steps interleave with the        *)
(* request of the first.  A goroutine that has received a request goes on  *)
(* running until its handler returns.                                      *)
(***************************************************************************)
\* the requests for the test keystore
OnTestKeystore(reqs) ==
    {r \in reqs : r.vars = <<>> \/ r.vars.keystoreID = testKeystoreID}

Received(ep, req, failing) ==
    [pc |-> "received", ep |-> ep, req |-> req, rw |-> NewRecorder(failing),
     k |-> NoKeystore, keyID |-> ""]

Receive(g) ==
    /\ ck[g].pc = "idle"
    /\ \/ /\ g = 1
          /\ \E failing \in BOOLEAN :
                \/ \E req \in OnTestKeystore(CreateKeystoreRequests) :
                      ck' = [ck EXCEPT ![g] = Received("createKeystore", req, failing)]
                \/ \E req \in OnTestKeystore(CreateKeyRequests) :
                      ck' = [ck EXCEPT ![g] = Received("createKey", req, failing)]
                \/ \E req \in OnTestKeystore(SignRequests) :
                      ck' = [ck EXCEPT ![g] = Received("sign", req, failing)]
                \/ \E req \in OnTestKeystore(VerifyRequests) :
                      ck' = [ck EXCEPT ![g] = Received("verify", req, failing)]
                \/ \E req \in OnTestKeystore(EncryptRequests) :
                      ck' = [ck EXCEPT ![g] = Received("encrypt", req, failing)]
                \/ \E req \in OnTestKeystore(DecryptRequests) :
                      ck' = [ck EXCEPT ![g] = Received("decrypt", req, failing)]
       \/ /\ g # 1
          /\ \E req \in OnTestKeystore(GoodCreateKeyRequests) :
                ck' = [ck EXCEPT ![g] = Received("createKey", req, FALSE)]
    /\ UNCHANGED <<store, generated, resp, prev, operation>>

\* the goroutine has a request for the endpoint and runs its handler
Handling(g, ep) ==
    /\ ck[g].pc = "received"
    /\ ck[g].ep = ep
    /\ Registered(operation, ep)
    /\ UNCHANGED <<resp, prev>>

HandleCreateKeystore(g) ==
    /\ Handling(g, "createKeystore")
    /\ \E repoErr \in CreateStoreErrs :
       \E putErr \in After(repoErr, PutErrs) :
        LET provider == [repoErr |-> repoErr, putErr |-> putErr]
            h == createKeystoreHandler(operation, ck[g].rw, ck[g].req,
                                       Injected(provider), store, generated)
        IN  /\ ck' = [ck EXCEPT ![g] = Done(ck[g].req, h.rw, "")]
            /\ operation' = h.o
            /\ store' = h.store
            /\ generated' = h.generated

HandleCreateKey(g) ==
    /\ Handling(g, "createKey")
    /\ \E repoErr \in RepoErrs :
       \E kmsErr \in After(repoErr, KMSCreatorErrs) :
       \E getErr \in After(kmsErr, GetErrs) :
       \E createKeyErr \in After(getErr, CreateKeyErrs) :
        LET provider == [repoErr |-> repoErr, kmsErr |-> kmsErr, getErr |-> getErr,
                         createKeyErr |-> createKeyErr, createKeyID |-> "key-1"]
            r == createKeyHandlerRead(operation, ck[g].rw, ck[g].req,
                                      Injected(provider), store)
        IN  /\ ck' = [ck EXCEPT ![g] =
                        IF r.saving
                        THEN [pc |-> "saving", ep |-> "createKey", req |-> ck[g].req,
                              rw |-> r.rw, k |-> r.k, keyID |-> r.keyID]
                        ELSE Done(ck[g].req, r.rw, "")]
            /\ operation' = r.o
            /\ UNCHANGED <<store, generated>>

HandleSign(g) ==
    /\ Handling(g, "sign")
    /\ \E repoErr \in RepoErrs :
       \E kmsErr \in After(repoErr, KMSCreatorErrs) :
       \E signErr \in After(kmsErr, SignErrs) :
        LET provider == [repoErr |-> repoErr, kmsErr |-> kmsErr,
                         signErr |-> signErr, signValue |-> testSignature,
                         crypto |-> MockCrypto]
            h == signHandler(operation, ck[g].rw, ck[g].req,
                            Injected(provider), store)
        IN  /\ ck' = [ck EXCEPT ![g] = Done(ck[g].req, h.rw, "")]
            /\ operation' = h.o
            /\ store' = h.store
            /\ UNCHANGED generated

HandleVerify(g) ==
    /\ Handling(g, "verify")
    /\ \E repoErr \in RepoErrs :
       \E kmsErr \in After(repoErr, KMSCreatorErrs) :
       \E verifyErr \in After(kmsErr, VerifyErrs) :
        LET provider == [repoErr |-> repoErr, kmsErr |-> kmsErr, verifyErr |-> verifyErr,
                         crypto |-> MockCrypto]
            h == verifyHandler(operation, ck[g].rw, ck[g].req,
                            Injected(provider), store)
        IN  /\ ck' = [ck EXCEPT ![g] = Done(ck[g].req, h.rw, "")]
            /\ operation' = h.o
            /\ store' = h.store
            /\ UNCHANGED generated

HandleEncrypt(g) ==
    /\ Handling(g, "encrypt")
    /\ \E repoErr \in RepoErrs :
       \E kmsErr \in After(repoErr, KMSCreatorErrs) :
       \E encryptErr \in After(kmsErr, EncryptErrs) :
        LET provider == [repoErr |-> repoErr, kmsErr |-> kmsErr,
                         encryptErr |-> encryptErr, encryptValue |-> testCipherText,
                         encryptNonce |-> testNonce, crypto |-> MockCrypto]
            h == encryptHandler(operation, ck[g].rw, ck[g].req,
                            Injected(provider), store)
        IN  /\ ck' = [ck EXCEPT ![g] = Done(ck[g].req, h.rw, "")]
            /\ operation' = h.o
            /\ store' = h.store
            /\ UNCHANGED generated

HandleDecrypt(g) ==
    /\ Handling(g, "decrypt")
    /\ \E repoErr \in RepoErrs :
       \E kmsErr \in After(repoErr, KMSCreatorErrs) :
       \E decryptErr \in After(kmsErr, DecryptErrs) :
        LET provider == [repoErr |-> repoErr, kmsErr |-> kmsErr,
                         decryptErr |-> decryptErr, decryptValue |-> testPlainText,
                         crypto |-> MockCrypto]
            h == decryptHandler(operation, ck[g].rw, ck[g].req,
                            Injected(provider), store)
        IN  /\ ck' = [ck EXCEPT ![g] = Done(ck[g].req, h.rw, "")]
            /\ operation' = h.o
            /\ store' = h.store
            /\ UNCHANGED generated

\* a step of the handler of the request the goroutine has received
Handle(g) ==
    \/ HandleCreateKeystore(g)
    \/ HandleCreateKey(g)
    \/ CreateKeySave(g)
    \/ HandleSign(g)
    \/ HandleVerify(g)
    \/ HandleEncrypt(g)
    \/ HandleDecrypt(g)

LiveNext ==
    \/ \E g \in LiveGoroutines : Receive(g)
    \/ \E g \in LiveGoroutines : Handle(g)

\* every collaborator call returns and a handler that can take a step takes it
LiveSpec ==
    /\ Init
    /\ [][LiveNext]_vars
    /\ \A g \in LiveGoroutines : WF_vars(Handle(g))

(***************************************************************************)
(* Round trips.  The collaborators are healthy and the crypto is the       *)
(* working one.  A client creates a keystore and keys, signs and encrypts  *)
(* messages with the stored keys, and sends what a response returned, as   *)
(* it is or altered, back for verification or decryption.                  *)
(***************************************************************************)
\* messages of 0 to 4 bytes; one holds a character of two bytes
Messages == {<<>>, <<116>>, <<195, 169>>, <<116, 101, 115>>, testMessage}
AADs == {<<>>, testAAD}
\* the nonces the crypto draws
Nonces == {testNonce, <<110, 111, 110>>}

\* the keys of the stored keystores, as path parameters
StoredKeys ==
    UNION {{[keystoreID |-> id, keyID |-> store[id].KeyIDs[i]] :
              i \in DOMAIN store[id].KeyIDs} : id \in DOMAIN store}

\* a base64 value with its first character replaced by the next of the
\* alphabet: it decodes to other bytes
FlipFirst(s) == IF Len(s) = 0 THEN s ELSE [s EXCEPT ![1] = (@ + 1) % 64]

\* a padded base64 value with a bit set that the last character does not
\* use: another string that decodes to the same bytes
SpareBits(s) ==
    IF Len(s) < 4 \/ s[Len(s)] # PadChar THEN s
    ELSE IF s[Len(s) - 1] = PadChar
    THEN [s EXCEPT ![Len(s) - 2] = @ + 1]
    ELSE [s EXCEPT ![Len(s) - 1] = @ + 1]

\* what a client may send for the base64 value it received
Variants(s) == {s, FlipFirst(s), SpareBits(s), <<BadChar>> \o s}

WorkingProvider(nonce) ==
    Injected([repoErr |-> NoErr, kmsErr |-> NoErr, crypto |-> WorkingCrypto,
              encryptNonce |-> nonce])

\* the client creates one keystore; it sends a request when no create-key
\* request is between its read and its save
ScenarioCreateKeystore ==
    /\ StoreSize(store, ck, "") < MaxScenarioSize
    /\ generated = 0
    /\ \E req \in GoodCreateKeystoreRequests :
        LET provider == [repoErr |-> NoErr, putErr |-> NoErr]
            h == createKeystoreHandler(operation, NewRecorder(FALSE), req,
                                       Injected(provider), store, generated)
        IN  /\ Responded("createKeystore", req, h)
            /\ generated' = h.generated
            /\ UNCHANGED ck

ScenarioCreateKey(g) ==
    /\ ck[g].pc = "idle"
    /\ \A h \in LiveGoroutines : h < g => ck[h].pc # "idle"
    /\ \E req \in {r \in GoodCreateKeyRequests :
                     StoreSize(store, ck, r.vars[keystoreIDQueryParam]) < MaxScenarioSize} :
        LET provider == [repoErr |-> NoErr, kmsErr |-> NoErr, getErr |-> NoErr,
                         createKeyErr |-> NoErr, createKeyID |-> "key-1"]
            r == createKeyHandlerRead(operation, NewRecorder(FALSE), req,
                                      Injected(provider), store)
        IN  IF r.saving
            THEN /\ ck' = [ck EXCEPT ![g] = [pc |-> "saving", req |-> req, rw |-> r.rw,
                                             k |-> r.k, keyID |-> r.keyID]]
                 /\ resp' = NoExchange
                 /\ prev' = NoExchange
                 /\ operation' = r.o
                 /\ UNCHANGED <<store, generated>>
            ELSE /\ Responded("createKey", req, [o |-> r.o, rw |-> r.rw, store |-> store])
                 /\ UNCHANGED <<ck, generated>>

SignMessage ==
    /\ \A g \in Goroutines : ck[g].pc # "saving"
    /\ \E key \in StoredKeys, message \in Messages, host \in Hosts :
        LET req == [body |-> ObjectBody([message |-> message, passphrase |-> "passphrase"]),
                    vars |-> key, host |-> host]
        IN  /\ Responded("sign", req,
                         signHandler(operation, NewRecorder(FALSE), req,
                                     WorkingProvider(<<>>), store))
            /\ UNCHANGED <<ck, generated>>

\* the client sends the signature of the sign response handled last, or a
\* variant of it, for verification with the same key
VerifySigned ==
    /\ \A g \in Goroutines : ck[g].pc # "saving"
    /\ resp.ep = "sign"
    /\ resp.rw.code = StatusOK
    /\ Len(resp.rw.body) = 1
    /\ \E signature \in Variants(resp.rw.body[1].signature),
          message \in {Decode(resp.req.body, signReq).val.message, <<111>>} :
        LET req == [body |-> ObjectBody([signature |-> signature, message |-> message,
                                         passphrase |-> "passphrase"]),
                    vars |-> resp.req.vars, host |-> resp.req.host]
        IN  /\ RespondedNext("verify", req,
                             verifyHandler(operation, NewRecorder(FALSE), req,
                                           WorkingProvider(<<>>), store))
            /\ UNCHANGED <<ck, generated>>

EncryptMessage ==
    /\ \A g \in Goroutines : ck[g].pc # "saving"
    /\ \E key \in StoredKeys, message \in Messages, aad \in AADs, nonce \in Nonces,
       host \in Hosts :
        LET req == [body |-> ObjectBody([message |-> message, aad |-> aad,
                                         passphrase |-> "passphrase"]),
                    vars |-> key, host |-> host]
        IN  /\ Responded("encrypt", req,
                         encryptHandler(operation, NewRecorder(FALSE), req,
                                        WorkingProvider(nonce), store))
            /\ UNCHANGED <<ck, generated>>

\* the client sends the cipher text and the nonce of the encrypt response
\* handled last, or variants of them, for decryption with the same key
DecryptEncrypted ==
    /\ \A g \in Goroutines : ck[g].pc # "saving"
    /\ resp.ep = "encrypt"
    /\ resp.rw.code = StatusOK
    /\ Len(resp.rw.body) = 1
    /\ \E cipherText \in Variants(resp.rw.body[1].cipherText),
          nonce \in Variants(resp.rw.body[1].nonce), aad \in AADs :
        LET req == [body |-> ObjectBody([cipherText |-> cipherText, aad |-> aad,
                                         nonce |-> nonce, passphrase |-> "passphrase"]),
                    vars |-> resp.req.vars, host |-> resp.req.host]
        IN  /\ RespondedNext("decrypt", req,
                             decryptHandler(operation, NewRecorder(FALSE), req,
                                            WorkingProvider(<<>>), store))
            /\ UNCHANGED <<ck, generated>>

RoundTripNext ==
    \/ ScenarioCreateKeystore
    \/ \E g \in LiveGoroutines : ScenarioCreateKey(g)
    \/ \E g \in LiveGoroutines : CreateKeyEnd(g, {NoErr})
    \/ SignMessage
    \/ VerifySigned
    \/ EncryptMessage
    \/ DecryptEncrypted

RoundTripSpec == Init /\ [][RoundTripNext]_vars

(***************************************************************************)
(* Properties.  They are stated on resp, the request handled last and its  *)
(* response writer, and on ck, the concurrent create-key requests.         *)
(***************************************************************************)
HasCall(rw, op) == \E i \in DOMAIN rw.calls : rw.calls[i].op = op

\* the error returned by the call of op
ErrOf(rw, op) == rw.calls[CHOOSE i \in DOMAIN rw.calls : rw.calls[i].op = op].err

Failed(rw, op) == HasCall(rw, op) /\ ErrOf(rw, op) # NoErr

\* the capabilities of the endpoints
Capabilities == {"Create", "CreateKey", "Sign", "Verify", "Encrypt", "Decrypt"}
\* the calls that make up the provisioning
Provisioning == {"NewRepository", "KMSCreator"}
\* the endpoints that provision
ProvisionedEndpoints == {"createKey", "sign", "verify", "encrypt", "decrypt"}

InvalidSignatureErrs == {ErrInvalidSignature} \cup WrapsInvalidSignature

IsErrorBody(v) == "errMessage" \in DOMAIN v
\* the one error body with the message
ErrorBody(format, err) == <<[errMessage |-> <<format, err>>]>>
\* what reaches the client of the encoded values
Delivered(rw) == IF rw.failing THEN <<>> ELSE rw.encoded

\* C1: starting from the test keystore with KeyIDs [k1], when the
\* MaxCreateKey concurrent create-key requests on that keystore have all
\* responded 201, the stored keystore has MaxCreateKey + 1 key IDs and holds
\* every key ID a response returned.
AllCreated ==
    \A g \in Goroutines :
        /\ ck[g].pc = "done"
        /\ ck[g].rw.code = StatusCreated
        /\ ck[g].req.vars.keystoreID = testKeystoreID

NoLostUpdate ==
    AllCreated =>
        /\ Len(store[testKeystoreID].KeyIDs) = MaxCreateKey + 1
        /\ \A g \in Goroutines :
             \E i \in DOMAIN store[testKeystoreID].KeyIDs :
                store[testKeystoreID].KeyIDs[i] = ck[g].keyID

\* C2: a verify request whose verification ran is answered 200 with no
\* body when the verification returned no error, 200 with the error message
\* of the invalid signature when it returned an error that is an invalid
\* signature, and 500 for every other error.
VerifyThreeWay ==
    (resp.ep = "verify" /\ HasCall(resp.rw, "Verify")) =>
        LET err == ErrOf(resp.rw, "Verify")
            rw == resp.rw
        IN  /\ err = NoErr =>
                 rw.code = StatusOK /\ rw.encoded = <<>> /\ rw.body = <<>>
            /\ err \in InvalidSignatureErrs =>
                 /\ rw.code = StatusOK
                 /\ rw.encoded = ErrorBody(verifyMessageFailure, err)
                 /\ rw.body = Delivered(rw)
            /\ err \notin InvalidSignatureErrs \cup {NoErr} =>
                 /\ rw.code = StatusInternalServerError
                 /\ rw.encoded = ErrorBody(verifyMessageFailure, err)

VerifyThreeWayWitness ==
    /\ resp.ep = "verify"
    /\ Failed(resp.rw, "Verify")
    /\ ErrOf(resp.rw, "Verify") \in WrapsInvalidSignature
    /\ resp.rw.code = StatusOK
    /\ resp.rw.body = ErrorBody(verifyMessageFailure, ErrOf(resp.rw, "Verify"))

\* C3: a verify request whose signature, or a decrypt request whose
\* cipherText or nonce, is not valid base64 is answered 400 with the decode
\* error, whatever the collaborators do.
MalformedBase64(ep, req) ==
    /\ req.body.kind = "object"
    /\ \/ /\ ep = "verify"
          /\ DecodeString(Decode(req.body, verifyReq).val.signature).err # NoErr
       \/ /\ ep = "decrypt"
          /\ \/ DecodeString(Decode(req.body, decryptReq).val.cipherText).err # NoErr
             \/ DecodeString(Decode(req.body, decryptReq).val.nonce).err # NoErr

MalformedBase64Is400 ==
    MalformedBase64(resp.ep, resp.req) =>
        /\ resp.rw.code = StatusBadRequest
        /\ resp.rw.encoded = ErrorBody(receivedBadRequest, CorruptInputError)

\* C4: a request answered 400 has not reached provisioning: the repository
\* was not opened and the key-manager constructor was not invoked.
BadRequestNeverProvisioned ==
    resp.rw.code = StatusBadRequest =>
        \A op \in Provisioning : ~HasCall(resp.rw, op)

\* C5: on every endpoint a request whose body is not decodable JSON is
\* answered 400 with the decode error, and the handler makes no call after
\* parsing but the ones that write this response.
MalformedJSONIs400 ==
    (resp.ep # "none" /\ Decode(resp.req.body, <<>>).err # NoErr) =>
        /\ resp.rw.code = StatusBadRequest
        /\ resp.rw.encoded = ErrorBody(receivedBadRequest, Decode(resp.req.body, <<>>).err)
        /\ resp.rw.body = Delivered(resp.rw)
        /\ \A i \in DOMAIN resp.rw.calls :
             resp.rw.calls[i].op \in {"parseRequest", "WriteHeader", "Encode"}
        /\ resp.rw.headerCalls = 1

MalformedJSONIs400Witness ==
    /\ resp.ep = "sign"
    /\ resp.req.body = SyntaxBody
    /\ resp.rw.code = StatusBadRequest
    /\ resp.rw.body = ErrorBody(receivedBadRequest, "invalid character")

\* C6: on create-key, sign, verify, encrypt and decrypt, when opening the
\* repository or constructing the key manager fails, the response is 500
\* with the provider-creation failure message and the capability of the
\* endpoint is not invoked.
ProvisioningFailed(rw) == \E op \in Provisioning : Failed(rw, op)

ProvisioningErr(rw) ==
    IF Failed(rw, "NewRepository") THEN ErrOf(rw, "NewRepository") ELSE ErrOf(rw, "KMSCreator")

ProvisioningFailureIs500 ==
    (resp.ep \in ProvisionedEndpoints /\ ProvisioningFailed(resp.rw)) =>
        /\ resp.rw.code = StatusInternalServerError
        /\ resp.rw.encoded = ErrorBody(createKMSProviderFailure, ProvisioningErr(resp.rw))
        /\ \A op \in Capabilities : ~HasCall(resp.rw, op)

ProvisioningFailureIs500Witness ==
    /\ resp.ep = "createKey"
    /\ Failed(resp.rw, "KMSCreator")
    /\ resp.rw.code = StatusInternalServerError
    /\ resp.rw.body = ErrorBody(createKMSProviderFailure, "kms creator error")

\* C7: on create-keystore, create-key, sign, encrypt and decrypt, when the
\* capability of the endpoint fails, the response is 500 with the failure
\* message of the endpoint, and it carries no Location and no other body.
CapabilityOf(ep) ==
    CASE ep = "createKeystore" -> "Create"
      [] ep = "createKey" -> "CreateKey"
      [] ep = "sign" -> "Sign"
      [] ep = "encrypt" -> "Encrypt"
      [] ep = "decrypt" -> "Decrypt"

FailureOf(ep) ==
    CASE ep = "createKeystore" -> "Failed to create a keystore: %s"
      [] ep = "createKey" -> "Failed to create a key: %s"
      [] ep = "sign" -> "Failed to sign a message: %s"
      [] ep = "encrypt" -> "Failed to encrypt a message: %s"
      [] ep = "decrypt" -> "Failed to decrypt a message: %s"

OperationFailureIs500 ==
    (/\ resp.ep \in {"createKeystore", "createKey", "sign", "encrypt", "decrypt"}
     /\ Failed(resp.rw, CapabilityOf(resp.ep))) =>
        /\ resp.rw.code = StatusInternalServerError
        /\ resp.rw.encoded = ErrorBody(FailureOf(resp.ep),
                                       ErrOf(resp.rw, CapabilityOf(resp.ep)))
        /\ resp.rw.location = NoLocation

OperationFailureIs500Witness ==
    /\ resp.ep = "createKey"
    /\ Failed(resp.rw, "CreateKey")
    /\ ErrOf(resp.rw, "CreateKey") = "store put error"
    /\ resp.rw.code = StatusInternalServerError

\* C8: a handler calls WriteHeader at most once and hands at most one body
\* to the encoder, on every path.
RespondsAtMostOnce ==
    /\ resp.rw.headerCalls <= 1
    /\ Len(resp.rw.encoded) <= 1

RespondsAtMostOnceWitness ==
    /\ resp.ep = "encrypt"
    /\ Failed(resp.rw, "NewRepository")
    /\ resp.rw.headerCalls = 1
    /\ Len(resp.rw.encoded) = 1

\* C9: when writing the body fails, the failure is logged, the write is the
\* last call of the handler, and the body stays empty.
WriteFailureSwallowed ==
    \A i \in DOMAIN resp.rw.calls :
        (resp.rw.calls[i].op = "Encode" /\ resp.rw.calls[i].err # NoErr) =>
            /\ i = Len(resp.rw.calls)
            /\ resp.rw.body = <<>>
            /\ Len(resp.rw.logs) = 1
            /\ Len(resp.rw.encoded) = 1

WriteFailureSwallowedWitness ==
    /\ resp.ep = "decrypt"
    /\ HasCall(resp.rw, "Decrypt")
    /\ ~Failed(resp.rw, "Decrypt")
    /\ Failed(resp.rw, "Encode")
    /\ resp.rw.encoded = <<decryptResp(testPlainText)>>
    /\ resp.rw.body = <<>>

\* C10 as stated: every response with an error body has status 400 or 500.
HasErrorBody(rw) == \E i \in DOMAIN rw.encoded : IsErrorBody(rw.encoded[i])

ErrorBodyIs400Or500 ==
    HasErrorBody(resp.rw) =>
        resp.rw.code \in {StatusBadRequest, StatusInternalServerError}

\* C10, amended: every response with an error body has status 400 or 500,
\* except the response of verify to an invalid signature, which has status
\* 200.
ErrorBodyIs400Or500OrInvalidSignature ==
    HasErrorBody(resp.rw) =>
        \/ resp.rw.code \in {StatusBadRequest, StatusInternalServerError}
        \/ /\ resp.ep = "verify"
           /\ resp.rw.code = StatusOK
           /\ Failed(resp.rw, "Verify")
           /\ ErrOf(resp.rw, "Verify") \in InvalidSignatureErrs

ErrorBodyWitness ==
    /\ resp.ep = "verify"
    /\ HasErrorBody(resp.rw)
    /\ resp.rw.code = StatusOK
    /\ ErrOf(resp.rw, "Verify") = ErrInvalidSignature

\* C11: every successful create-keystore request returns, in its Location,
\* an identifier that no stored keystore has (all identifiers returned
\* before are stored), adds one record under it with the controller of the
\* request and no keys, and leaves every existing record as it was; two
\* requests with the same controller so give two keystores.
CreateKeystoreSucceeds ==
    /\ resp' # resp
    /\ resp'.ep = "createKeystore"
    /\ resp'.rw.code = StatusCreated

KeystoreIDNeverReused ==
    [][CreateKeystoreSucceeds =>
         \E id \in KeystoreIDs \ DOMAIN store :
            /\ resp'.rw.location = resp'.req.host \o "/kms/keystores/" \o id
            /\ DOMAIN store' = DOMAIN store \cup {id}
            /\ store'[id] = Keystore(id, Decode(resp'.req.body, createKeystoreReq).val.controller,
                                     <<>>)
            /\ \A old \in DOMAIN store : store'[old] = store[old]]_vars

KeystoreIDNeverReusedWitness ==
    /\ {"keystore-1", "keystore-2"} \subseteq DOMAIN store
    /\ store["keystore-1"].Controller = testController
    /\ store["keystore-2"].Controller = testController
    /\ generated = 2
    /\ resp.ep = "createKeystore"
    /\ resp.rw.code = StatusCreated
    /\ resp.rw.location = "localhost:8070/kms/keystores/keystore-2"

\* C12: a create-keystore request whose controller is empty or absent is
\* stopped at the parse step: it is answered 400, the repository is not
\* opened, Create is not called, and no keystore with an empty controller
\* is stored.
EmptyController(req) ==
    /\ req.body.kind = "object"
    /\ Decode(req.body, createKeystoreReq).val.controller = ""

ControllerRequired ==
    /\ (resp.ep = "createKeystore" /\ EmptyController(resp.req)) =>
          /\ resp.rw.code = StatusBadRequest
          /\ ~HasCall(resp.rw, "NewRepository")
          /\ ~HasCall(resp.rw, "Create")
    /\ \A id \in DOMAIN store : store[id].Controller # ""

\* C13: in every step, every stored keystore stays stored, its KeyIDs does
\* not get shorter, and every key ID it held before the step it holds after
\* the step.
Contains(keyIDs, keyID) == \E i \in DOMAIN keyIDs : keyIDs[i] = keyID

KeyIDsOnlyGrow ==
    [][\A id \in DOMAIN store :
         /\ id \in DOMAIN store'
         /\ Len(store'[id].KeyIDs) >= Len(store[id].KeyIDs)
         /\ \A i \in DOMAIN store[id].KeyIDs :
              Contains(store'[id].KeyIDs, store[id].KeyIDs[i])]_vars

\* C14: no stored keystore holds the same key ID at two places of its
\* KeyIDs.
NoDuplicateKeyIDs ==
    \A id \in DOMAIN store :
        \A i, j \in DOMAIN store[id].KeyIDs :
            store[id].KeyIDs[i] = store[id].KeyIDs[j] => i = j

\* C15 as stated: every create-key, sign, verify, encrypt or decrypt request
\* that reaches provisioning invokes the key-manager constructor exactly
\* once; the capability of a request runs on the bundle built by the
\* constructor call of that same request, made for its keystore ID and
\* passphrase; create-keystore never invokes the constructor.
CountCalls(rw, op) == Cardinality({i \in DOMAIN rw.calls : rw.calls[i].op = op})

\* the requests in the state: the one handled last and the concurrent ones
Exchanges ==
    {[ep |-> resp.ep, req |-> resp.req, rw |-> resp.rw]}
        \cup {[ep |-> "createKey", req |-> ck[g].req, rw |-> ck[g].rw] :
                 g \in {h \in Goroutines : ck[h].pc # "idle"}}

PassphraseOf(req) == Decode(req.body, [passphrase |-> ""]).val.passphrase

UsesOwnBundle(req, rw) ==
    \A j \in DOMAIN rw.calls :
        rw.calls[j].op \in Capabilities \ {"Create"} =>
            \E i \in 1..(j - 1) :
                /\ rw.calls[i].op = "KMSCreator"
                /\ rw.calls[i].err = NoErr
                /\ rw.calls[i].args = <<req.vars.keystoreID, PassphraseOf(req)>>
                /\ rw.calls[j].args.provider
                     = kmsProvider(rw.calls[i].args[1], rw.calls[i].args[2])

ConstructorExactlyOnce ==
    \A x \in Exchanges :
        /\ (x.ep \in ProvisionedEndpoints /\ HasCall(x.rw, "NewRepository")) =>
              CountCalls(x.rw, "KMSCreator") = 1
        /\ UsesOwnBundle(x.req, x.rw)
        /\ x.ep = "createKeystore" => CountCalls(x.rw, "KMSCreator") = 0

\* C15, amended: a request that reaches provisioning invokes the key-manager
\* constructor exactly once when the repository was opened, and not at all
\* when opening it failed; the rest as stated.
ConstructorOncePerOpenedRepository ==
    \A x \in Exchanges :
        /\ (x.ep \in ProvisionedEndpoints /\ HasCall(x.rw, "NewRepository")) =>
              CountCalls(x.rw, "KMSCreator")
                  = (IF Failed(x.rw, "NewRepository") THEN 0 ELSE 1)
        /\ UsesOwnBundle(x.req, x.rw)
        /\ x.ep = "createKeystore" => CountCalls(x.rw, "KMSCreator") = 0

ConstructorOncePerOpenedRepositoryWitness ==
    /\ resp.ep = "sign"
    /\ CountCalls(resp.rw, "KMSCreator") = 1
    /\ HasCall(resp.rw, "Sign")
    /\ \E j \in DOMAIN resp.rw.calls :
          /\ resp.rw.calls[j].op = "Sign"
          /\ resp.rw.calls[j].args.provider.kms = <<resp.req.vars.keystoreID, "passphrase">>

\* C16: within one request the storage open, the key-manager constructor
\* and each capability are invoked at most once, and after the first of
\* these calls that fails none of them is invoked.
ExternalCalls == Provisioning \cup Capabilities

NoInternalRetries ==
    \A x \in Exchanges :
        /\ \A op \in ExternalCalls : CountCalls(x.rw, op) <= 1
        /\ \A i \in DOMAIN x.rw.calls :
              (x.rw.calls[i].op \in ExternalCalls /\ x.rw.calls[i].err # NoErr) =>
                  \A j \in DOMAIN x.rw.calls :
                      j > i => x.rw.calls[j].op \in {"WriteHeader", "Encode"}

NoInternalRetriesWitness ==
    /\ resp.ep = "sign"
    /\ Failed(resp.rw, "Sign")
    /\ CountCalls(resp.rw, "NewRepository") = 1
    /\ CountCalls(resp.rw, "KMSCreator") = 1
    /\ CountCalls(resp.rw, "Sign") = 1
    /\ resp.rw.code = StatusInternalServerError

\* C17: a create-keystore or create-key request whose capability succeeded
\* is answered 201 with the Location made of the host of the request and
\* the canonical path, holding the keystore ID returned by Create, or the
\* keystore ID of the request and the key ID returned by the key manager;
\* a response has a Location only in these two cases.
Succeeded(rw, op) == HasCall(rw, op) /\ ~Failed(rw, op)

LocationOnSuccessOnly ==
    /\ resp.rw.location # NoLocation =>
          /\ resp.rw.code = StatusCreated
          /\ resp.rw.encoded = <<>>
          /\ \/ resp.ep = "createKeystore" /\ Succeeded(resp.rw, "Create")
             \/ resp.ep = "createKey" /\ Succeeded(resp.rw, "CreateKey")
    /\ (resp.ep = "createKeystore" /\ Succeeded(resp.rw, "Create")) =>
          /\ resp.rw.code = StatusCreated
          /\ \E id \in DOMAIN store :
                /\ store[id].KeyIDs = <<>>
                /\ store[id].Controller = Decode(resp.req.body, createKeystoreReq).val.controller
                /\ resp.rw.location = resp.req.host \o "/kms/keystores/" \o id
    /\ (resp.ep = "createKey" /\ Succeeded(resp.rw, "CreateKey")) =>
          LET keystoreID == resp.req.vars.keystoreID
              keyIDs == store[keystoreID].KeyIDs
          IN  /\ resp.rw.code = StatusCreated
              /\ resp.rw.location = resp.req.host \o "/kms/keystores/" \o keystoreID
                                       \o "/keys/" \o keyIDs[Len(keyIDs)]

LocationOnSuccessOnlyWitness ==
    /\ resp.ep = "createKey"
    /\ resp.rw.code = StatusCreated
    /\ resp.rw.location = "localhost:8070/kms/keystores/bsi5ct08vcqmquc0fn5g/keys/key-1"

\* C18: when the signature returned by sign is sent as it is for
\* verification with the same message, key and keystore, the response is
\* 200 with no error message: the verification ran and accepted it.
SentBack(ep, first) ==
    /\ resp.ep = ep
    /\ prev.ep = first
    /\ prev.rw.code = StatusOK
    /\ Len(prev.rw.body) = 1
    /\ resp.req.vars = prev.req.vars

SignThenVerifySucceeds ==
    (/\ SentBack("verify", "sign")
     /\ Decode(resp.req.body, verifyReq).val.signature = prev.rw.body[1].signature
     /\ Decode(resp.req.body, verifyReq).val.message
          = Decode(prev.req.body, signReq).val.message) =>
        /\ resp.rw.code = StatusOK
        /\ resp.rw.encoded = <<>>
        /\ resp.rw.body = <<>>
        /\ Succeeded(resp.rw, "Verify")

SignThenVerifySucceedsWitness ==
    /\ SentBack("verify", "sign")
    /\ resp.req.vars = [keystoreID |-> "keystore-1", keyID |-> "key-1"]
    /\ store["keystore-1"].KeyIDs = <<"key-1">>
    /\ Decode(prev.req.body, signReq).val.message = testMessage
    /\ Decode(resp.req.body, verifyReq).val.message = testMessage
    /\ Decode(resp.req.body, verifyReq).val.signature = prev.rw.body[1].signature
    /\ resp.rw.code = StatusOK
    /\ Succeeded(resp.rw, "Verify")

\* C19: when the cipherText and the nonce returned by encrypt are sent as
\* they are for decryption with the same aad, key and keystore, the
\* response is 200 and its plainText is the message that was encrypted.
EncryptThenDecryptYieldsMessage ==
    (/\ SentBack("decrypt", "encrypt")
     /\ Decode(resp.req.body, decryptReq).val.cipherText = prev.rw.body[1].cipherText
     /\ Decode(resp.req.body, decryptReq).val.nonce = prev.rw.body[1].nonce
     /\ Decode(resp.req.body, decryptReq).val.aad
          = Decode(prev.req.body, encryptReq).val.aad) =>
        /\ resp.rw.code = StatusOK
        /\ Succeeded(resp.rw, "Decrypt")
        /\ resp.rw.body = <<[plainText |-> Decode(prev.req.body, encryptReq).val.message]>>

EncryptThenDecryptYieldsMessageWitness ==
    /\ SentBack("decrypt", "encrypt")
    /\ Decode(prev.req.body, encryptReq).val.message = <<195, 169>>
    /\ Decode(prev.req.body, encryptReq).val.aad = testAAD
    /\ Decode(resp.req.body, decryptReq).val.cipherText = prev.rw.body[1].cipherText
    /\ Decode(resp.req.body, decryptReq).val.nonce = EncodeToString(testNonce)
    /\ resp.rw.code = StatusOK
    /\ resp.rw.body = <<[plainText |-> <<195, 169>>]>>

\* C20 as stated: a decrypt request whose cipherText, aad or nonce differs
\* from what the encrypt returned or used is answered 500 with the decrypt
\* failure, and a response carries a plainText only when Decrypt returned
\* no error.
HasPlainText(rw) == \E i \in DOMAIN rw.encoded : "plainText" \in DOMAIN rw.encoded[i]

PlainTextOnlyFromDecrypt ==
    (resp.ep = "decrypt" /\ HasPlainText(resp.rw)) =>
        resp.rw.code = StatusOK /\ Succeeded(resp.rw, "Decrypt")

AlteredDecryptIs500 ==
    /\ (/\ SentBack("decrypt", "encrypt")
        /\ \/ Decode(resp.req.body, decryptReq).val.cipherText # prev.rw.body[1].cipherText
           \/ Decode(resp.req.body, decryptReq).val.nonce # prev.rw.body[1].nonce
           \/ Decode(resp.req.body, decryptReq).val.aad
                # Decode(prev.req.body, encryptReq).val.aad) =>
          /\ resp.rw.code = StatusInternalServerError
          /\ resp.rw.encoded = ErrorBody(decryptMessageFailure, "decrypt error")
    /\ PlainTextOnlyFromDecrypt

\* C20, amended: a decrypt request whose cipherText or nonce is not valid
\* base64 is answered 400; one whose cipherText or nonce decodes to other
\* bytes than the encrypt returned, or whose aad is another, is answered 500
\* with the decrypt failure; one whose fields decode to the same bytes is
\* answered 200 with the message; and a response carries a plainText only
\* when Decrypt returned no error.
AlteredBytesDecryptIs500 ==
    /\ SentBack("decrypt", "encrypt") =>
          LET request == Decode(resp.req.body, decryptReq).val
              cipherText == DecodeString(request.cipherText)
              nonce == DecodeString(request.nonce)
              encrypted == Decode(prev.req.body, encryptReq).val
          IN  IF cipherText.err # NoErr \/ nonce.err # NoErr
              THEN /\ resp.rw.code = StatusBadRequest
                   /\ resp.rw.encoded = ErrorBody(receivedBadRequest, CorruptInputError)
              ELSE IF \/ cipherText.out # DecodeString(prev.rw.body[1].cipherText).out
                      \/ nonce.out # DecodeString(prev.rw.body[1].nonce).out
                      \/ request.aad # encrypted.aad
              THEN /\ resp.rw.code = StatusInternalServerError
                   /\ resp.rw.encoded = ErrorBody(decryptMessageFailure, "decrypt error")
              ELSE /\ resp.rw.code = StatusOK
                   /\ resp.rw.encoded = <<[plainText |-> encrypted.message]>>
    /\ PlainTextOnlyFromDecrypt

AlteredBytesDecryptIs500Witness ==
    /\ SentBack("decrypt", "encrypt")
    /\ Decode(prev.req.body, encryptReq).val.message = testMessage
    /\ Decode(resp.req.body, decryptReq).val.cipherText = FlipFirst(prev.rw.body[1].cipherText)
    /\ Decode(resp.req.body, decryptReq).val.nonce = prev.rw.body[1].nonce
    /\ Failed(resp.rw, "Decrypt")
    /\ resp.rw.code = StatusInternalServerError
    /\ ~HasPlainText(resp.rw)

\* C21: handling a request, whether requests are handled one by one or their
\* steps interleave, leaves the handler list and the injected provider of the
\* Operation as New made them; of the state the requests share, only the
\* keystore storage, with the identifiers its service has generated, changes.
DispatcherStateless ==
    [][/\ operation' = operation
       /\ GetRESTHandlers(operation') = GetRESTHandlers(New(InjectedProvider))
       /\ operation'.provider = InjectedProvider]_vars

DispatcherStatelessWitness ==
    /\ resp.ep = "createKey"
    /\ resp.rw.code = StatusCreated
    /\ \E g \in Goroutines : ck[g].pc = "saving"
    /\ Len(store[resp.req.vars.keystoreID].KeyIDs) = 2
    /\ operation = New(InjectedProvider)
    /\ Len(GetRESTHandlers(operation)) = 6

\* C22: in every request, handled alone or interleaved with others, each
\* call of the key-manager constructor is made with the keystore ID of the
\* path of that request and the passphrase of its body, and each call of
\* CreateKey, Sign, Verify, Encrypt or Decrypt is made on the bundle built
\* for that keystore ID and passphrase, with that keystore ID and, for the
\* four crypto operations, the key ID of the path of that request.
KeyManagerBoundToRequest ==
    \A x \in Exchanges : \A j \in DOMAIN x.rw.calls :
        LET c == x.rw.calls[j]
            bundle == <<x.req.vars.keystoreID, PassphraseOf(x.req)>>
        IN  /\ c.op = "KMSCreator" => c.args = bundle
            /\ c.op \in Capabilities \ {"Create"} =>
                  /\ c.args.provider.kms = bundle
                  /\ c.args.keystoreID = x.req.vars.keystoreID
                  /\ c.op # "CreateKey" => c.args.keyID = x.req.vars.keyID

\* a decrypt request for the test keystore is answered while a create-key
\* request for another keystore is between its read and its save
KeyManagerBoundToRequestWitness ==
    /\ ck[2].pc = "saving"
    /\ ck[2].req.vars.keystoreID = "keystore-1"
    /\ \E i, j \in DOMAIN ck[2].rw.calls :
          /\ i < j
          /\ ck[2].rw.calls[i].op = "KMSCreator"
          /\ ck[2].rw.calls[i].args = <<"keystore-1", "passphrase">>
          /\ ck[2].rw.calls[j].op = "CreateKey"
          /\ ck[2].rw.calls[j].args.keystoreID = "keystore-1"
    /\ resp.ep = "decrypt"
    /\ resp.req.vars.keystoreID = testKeystoreID
    /\ \E i, j \in DOMAIN resp.rw.calls :
          /\ i < j
          /\ resp.rw.calls[i].op = "KMSCreator"
          /\ resp.rw.calls[i].args = <<testKeystoreID, "passphrase">>
          /\ resp.rw.calls[j].op = "Decrypt"
          /\ resp.rw.calls[j].args.keystoreID = testKeystoreID
          /\ resp.rw.calls[j].args.keyID = testKeyID

\* C23: a step that handles a sign, verify, encrypt or decrypt request,
\* whatever its outcome, leaves the stored keystores as they were: the same
\* IDs, and for each the same controller and the same KeyIDs.
CryptoEndpoints == {"sign", "verify", "encrypt", "decrypt"}

CryptoOperationsReadOnly ==
    [][resp'.ep \in CryptoEndpoints =>
         /\ DOMAIN store' = DOMAIN store
         /\ \A id \in DOMAIN store :
               /\ store'[id].ID = store[id].ID
               /\ store'[id].Controller = store[id].Controller
               /\ store'[id].KeyIDs = store[id].KeyIDs]_vars

CryptoOperationsReadOnlyWitness ==
    /\ resp.ep = "encrypt"
    /\ resp.rw.code = StatusOK
    /\ DOMAIN store = {testKeystoreID, "keystore-1"}
    /\ store[testKeystoreID].KeyIDs = <<testKeyID>>
    /\ store["keystore-1"].Controller = testController

\* C24: a step that handles a request answered 400, or a request whose
\* repository or key manager could not be made, leaves the storage as it
\* was: no keystore is added and no stored record is modified.
EndsEarly(rw) == rw.code = StatusBadRequest \/ ProvisioningFailed(rw)

EarlyFailureLeavesStore ==
    [][EndsEarly(resp'.rw) => store' = store]_vars

EarlyFailureLeavesStoreWitness ==
    /\ resp.ep = "createKey"
    /\ Failed(resp.rw, "KMSCreator")
    /\ resp.rw.code = StatusInternalServerError
    /\ resp.req.vars.keystoreID = testKeystoreID
    /\ DOMAIN store = {testKeystoreID}
    /\ store[testKeystoreID].KeyIDs = <<testKeyID>>

\* C25: under every interleaving, a step of a create-key request on one
\* keystore leaves the stored record of every other keystore as it was, and
\* a create-keystore request leaves every keystore stored before as it was.
Kept(ids) == \A id \in ids : id \in DOMAIN store' /\ store'[id] = store[id]

KeystoresIsolated ==
    [][/\ \A g \in Goroutines :
            ck'[g] # ck[g] => Kept(DOMAIN store \ {ck'[g].req.vars.keystoreID})
       /\ ck' = ck => Kept(DOMAIN store)]_vars

KeystoresIsolatedWitness ==
    /\ DOMAIN store = {testKeystoreID, "keystore-1"}
    /\ store[testKeystoreID] = Keystore(testKeystoreID, testController, <<testKeyID>>)
    /\ Len(store["keystore-1"].KeyIDs) = 1
    /\ \E g \in Goroutines :
          /\ ck[g].pc = "done"
          /\ ck[g].req.vars.keystoreID = "keystore-1"
          /\ ck[g].rw.code = StatusCreated

\* C26: every request a goroutine has received is eventually answered,
\* whatever the outcomes of the collaborator calls: its handler returns, and
\* by then it has written a status or a body to the response writer (or, on
\* a writer that rejects every body, has handed a body to it).
Answered(rw) == rw.wroteHeader \/ (rw.failing /\ HasCall(rw, "Encode"))

EveryRequestAnswered ==
    \A g \in LiveGoroutines :
        (ck[g].pc = "received") ~> (ck[g].pc = "done" /\ Answered(ck[g].rw))

EveryRequestAnsweredWitness ==
    \E g, h \in LiveGoroutines :
        /\ ck[g].pc = "done"
        /\ "cipherText" \in DOMAIN ck[g].req.body.obj
        /\ Failed(ck[g].rw, "KMSCreator")
        /\ ck[g].rw.code = StatusInternalServerError
        /\ Answered(ck[g].rw)
        /\ ck[h].pc = "done"
        /\ ck[h].keyID = "key-1"
        /\ ck[h].rw.code = StatusCreated
====
